---- MODULE Spec2Model ----
(***************************************************************************)
(* The movie chatbot, in three parts.                                      *)
(*                                                                         *)
(* Spec: the seat-booking transaction (booking_integration.book_tickets)   *)
(* over the shared CSV store Data/Showtimessampledata.csv, with several    *)
(* callers.  SpecTurn: one run of ChatbotWorkflow (chatbot.py): the start  *)
(* step, the four handlers, and book_tickets as handle_book_tickets calls  *)
(* it.  SpecChat: the conversation history of the terminal loop and of the *)
(* two Telegram bots.  The parts share the variables; each specification   *)
(* leaves the variables of the other parts as they are.                    *)
(*                                                                         *)
(* The booking transaction.                                                *)
(* Several front ends (terminal loop, two Telegram bots, Streamlit         *)
(* sessions) call book_tickets against the same file; the function takes   *)
(* no lock.  Each caller is a process of the model.  The shared state is   *)
(* the file; everything else is local to a call.                           *)
(*                                                                         *)
(* Granularity.  The read of the file (lines 68-70) is one step, and the   *)
(* purely local computation that follows it (parse, match, seat check,     *)
(* lines 74-98 and the returns of lines 109-113) is folded into that step: *)
(* it touches nothing shared.  The write (lines 102-105) is open("w"),     *)
(* which truncates the file, followed by the header and the rows; the      *)
(* model emits them one cell at a time, each writer at its own file        *)
(* offset, which covers every flush boundary the buffered writer can       *)
(* choose at row granularity.  A cell written beyond the end of a file     *)
(* that another caller truncated leaves a hole of NUL bytes before it; a   *)
(* reader gets the hole as part of the line that follows it, or the csv    *)
(* module raises on it, depending on the interpreter.                      *)
(* Only the columns book_tickets reads are kept; available_seats is kept   *)
(* as the integer that int()/str() of lines 95 and 98 convert from and to. *)
(***************************************************************************)
EXTENDS Integers, Sequences, FiniteSets, TLC

\* ---------------------------------------------------------------- bounds
\* Seats a showtime is seeded with, tickets one call asks for, calls made.
MaxSeats   == 2
MaxTickets == 2
MaxCalls   == 3
\* Lines the search oracle returns, messages a front end takes.
MaxLines    == 3
MaxMessages == 11
\* Rows of the movies table and of the Showtimes table of the remote store.
MaxFilms == 2
MaxShows == 2
\* Lines of the oracle's text that the showtimes response is made of.
MaxRaw == 3
\* Updates a Telegram bot takes while two handler tasks are followed.
MaxUpdates == 3
\* Shows in the list given to filter_showtimes.
MaxShown == 2

\* The concurrent callers of book_tickets.
Procs == {"p1", "p2"}

\* ---------------------------------------------------------------- values
NoneVal == "None"
NUL     == "NUL"

\* str.lower() on the strings of the model.
Lower(s) ==
    CASE s = "Hindi"   -> "hindi"
      [] s = "HINDI"   -> "hindi"
      [] s = "English" -> "english"
      [] s = "Dune"    -> "dune"
      [] s = "Moana"   -> "moana"
      [] s = "PVR"     -> "pvr"
      [] s = "Indiranagar" -> "indiranagar"
      [] OTHER         -> s

\* Showtime keys of the seeded table (the columns book_tickets compares).
KeyDuneHindi ==
    [theater_location |-> "PVR", movie_name |-> "Dune", language |-> "Hindi",
     date |-> "2024-12-15", time |-> "17:30"]
KeyDuneHindiLc ==
    [theater_location |-> "PVR", movie_name |-> "Dune", language |-> "hindi",
     date |-> "2024-12-15", time |-> "17:30"]
KeyMoanaHindi ==
    [theater_location |-> "PVR", movie_name |-> "Moana", language |-> "Hindi",
     date |-> "2024-12-15", time |-> "17:30"]

\* One CSV row as csv.DictReader yields it.
Row(k, n) ==
    [theater_location |-> k.theater_location, movie_name |-> k.movie_name,
     language |-> k.language, date |-> k.date, time |-> k.time,
     available_seats |-> n]

\* What a reader gets for a stretch of NUL bytes: no field is a real value.
HoleRow ==
    [theater_location |-> NUL, movie_name |-> NUL, language |-> NUL,
     date |-> NUL, time |-> NUL, available_seats |-> 0]

\* Seeded tables: two distinct showtimes, or two rows with the same key up to
\* the case of the language.
Layouts == { <<KeyDuneHindi, KeyMoanaHindi>>, <<KeyDuneHindi, KeyDuneHindiLc>> }

\* query_result strings, as their whitespace-separated tokens: the form the
\* index builder emits for a showtime (llama_index_builder.py line 71), one
\* naming a time no row has, one without a language part, one without a time.
QueryShow     == <<"2024-12-15", "17:30", "-", "hindi", "-", "2", "seats">>
QueryOtherTime == <<"2024-12-15", "22:15", "-", "Hindi">>
QueryNoLanguage == <<"2024-12-15", "17:30">>
QueryNoTime   == <<"2024-12-15", "-", "hindi">>

Movies   == {"Dune", "Moana"}
\* The requested ticket count: a positive integer.
TicketCounts == 1..MaxTickets

Request(q, n, m) ==
    [query_result |-> q, num_tickets |-> n, movie_name |-> m,
     theater_name |-> "PVR"]

\* The seeded showtime asked for with the movie title, or the theater name, in
\* lower case.
RequestLowerMovie   == Request(QueryShow, 1, "dune")
RequestLowerTheater == [Request(QueryShow, 1, "Dune") EXCEPT !.theater_name = "pvr"]

\* The calls the callers make: every movie and ticket count for the showtime
\* form, and one call for each of the other forms.
Requests ==
    { Request(QueryShow, n, m) : n \in TicketCounts, m \in Movies }
      \cup { Request(q, 1, "Dune") : q \in {QueryOtherTime, QueryNoLanguage, QueryNoTime} }
      \cup { RequestLowerMovie, RequestLowerTheater }

NoRequest ==
    [query_result |-> <<>>, num_tickets |-> 0,
     movie_name |-> NoneVal, theater_name |-> NoneVal]

\* ---------------------------------------------------------------- state
VARIABLES
    fileHdr,     \* header line of the file: "none" (empty file), "ok", "hole"
    file,        \* the data rows of the file, in file order
    pc,          \* per caller: "idle", "open", "write", "done"
    args,        \* per caller: the arguments of the call in progress
    fieldnames,  \* per caller: reader.fieldnames ("none", "ok", "hole")
    showtimes,   \* per caller: the list read from the file (line 70)
    matched,     \* per caller: index of matching_show in showtimes, 0 if None
    avail,       \* per caller: available (line 95), -1 before it is set
    woff,        \* per caller: cells written so far by its open writer
    result,      \* per caller: the returned (success, message), "none" before
    started,     \* history: calls made so far
    overlap,     \* history: per caller, whether its call overlapped another
    sold,        \* history: per row index, tickets of successful calls
    initial,     \* history: the seeded table
    event,       \* the event in flight in the ChatbotWorkflow run, if any
    turn,        \* history: what the run in progress has done so far
    similarity_top_k, \* retriever.similarity_top_k of the shared retriever
    frontend,    \* the front end program that is running, "none" for no one
    history,     \* the list `history` of the terminal loop
    chat_histories, \* the dict chat_histories of a Telegram bot
    log,         \* history: per chat, every entry appended since its reset
    handled,     \* history: messages the front end has taken so far
    handed,      \* history: the history lines of the last chat_with_user call
    movies_table,    \* the table "movies" of the remote store, in answer order
    showtimes_table, \* the table "Showtimes" of the remote store
    fetch,       \* the call of fetch_showtimes_for_movie and what came of it
    listing,     \* the oracle's showtime lines and the text made of them
    tasks,       \* per handler task of a Telegram bot: the update it handles
    filtering    \* the call of filter_showtimes and what it returned

\* The callers' side of the booking transaction, the workflow run, the
\* conversation state of the front ends.
calls     == <<pc, args, fieldnames, showtimes, matched, avail, woff, result,
               started, overlap, sold, initial>>
turnVars  == <<event, turn, similarity_top_k>>
chatVars  == <<frontend, history, chat_histories, log, handled, handed>>
fetchVars == <<movies_table, showtimes_table, fetch>>

vars == <<fileHdr, file, pc, args, fieldnames, showtimes, matched, avail,
          woff, result, started, overlap, sold, initial,
          event, turn, similarity_top_k, frontend, history, chat_histories, log, handled,
          handed, movies_table, showtimes_table, fetch, listing, tasks, filtering>>

locals == <<args, fieldnames, showtimes, matched, avail>>

\* ---------------------------------------------------------------- parsing
\* str.split(' - ') on a stripped string, over its tokens: a "-" token
\* separates two parts when text precedes it in the current part and a token
\* follows it.
RECURSIVE Split(_, _, _)
Split(toks, i, cur) ==
    IF i > Len(toks) THEN <<cur>>
    ELSE IF toks[i] = "-" /\ cur # <<>> /\ i < Len(toks)
         THEN <<cur>> \o Split(toks, i + 1, <<>>)
         ELSE Split(toks, i + 1, Append(cur, toks[i]))

Parts(query_result) == Split(query_result, 1, <<>>)

\* Lines 75 and 77 asking for a third part as well.
WellFormedThreeParts(query_result) ==
    /\ Len(Parts(query_result)) >= 3
    /\ Len(Parts(query_result)[1]) = 2

\* Lines 75 and 77: at least two parts, and the first is "<date> <time>".
WellFormed(query_result) ==
    /\ Len(Parts(query_result)) >= 2
    /\ Len(Parts(query_result)[1]) = 2

\* Line 87 without the two lower() calls.
LanguageEqExact(stored, part) ==
    /\ Len(part) = 1
    /\ stored = part[1]

\* language.lower() == show['language'].lower() for language = parts[1].
LanguageEq(stored, part) ==
    /\ Len(part) = 1
    /\ Lower(stored) = Lower(part[1])

\* Matches with the comparison of the time (line 86) left out.
MatchesIgnoringTime(show, query_result, movie_name, theater_name) ==
    /\ show.date = Parts(query_result)[1][1]
    /\ LanguageEq(show.language, Parts(query_result)[2])
    /\ show.movie_name = movie_name
    /\ show.theater_location = theater_name

\* The condition of lines 85-89.
Matches(show, query_result, movie_name, theater_name) ==
    /\ show.date = Parts(query_result)[1][1]
    /\ show.time = Parts(query_result)[1][2]
    /\ LanguageEq(show.language, Parts(query_result)[2])
    /\ show.movie_name = movie_name
    /\ show.theater_location = theater_name

MatchSet(rows, query_result, movie_name, theater_name) ==
    { i \in 1..Len(rows) : Matches(rows[i], query_result, movie_name, theater_name) }

Min(S) == CHOOSE x \in S : \A y \in S : x <= y

\* The loop of lines 83-92: the first matching row (break), 0 for None.
FirstMatch(rows, query_result, movie_name, theater_name) ==
    IF MatchSet(rows, query_result, movie_name, theater_name) = {} THEN 0
    ELSE Min(MatchSet(rows, query_result, movie_name, theater_name))

\* Line 96 with the check dropped.
EnoughSeatsUnchecked(available, num_tickets) == TRUE

\* Line 96.
EnoughSeats(available, num_tickets) == available >= num_tickets

\* Line 98 with the subtraction dropped.
NewSeatsNoDecrement(available, num_tickets) == available

\* Line 98.
NewSeats(available, num_tickets) == available - num_tickets

\* ---------------------------------------------------------------- the file
HasNul == fileHdr = "hole" \/ \E i \in 1..Len(file) : file[i] = HoleRow

\* A row whose line starts with the NUL bytes of the hole before it: its
\* first column, theater_location, is no longer the stored value.
Damaged(row) == [row EXCEPT !.theater_location = NUL]

\* list(csv.DictReader(file)) under an intact header (lines 69-70): a hole
\* has no line end, so it is read as the start of the row after it; a hole
\* at the end of the file is a row of its own.
RECURSIVE ReadFrom(_, _, _)
ReadFrom(rows, i, inHole) ==
    IF i > Len(rows) THEN (IF inHole THEN <<HoleRow>> ELSE <<>>)
    ELSE IF rows[i] = HoleRow THEN ReadFrom(rows, i + 1, TRUE)
    ELSE <<IF inHole THEN Damaged(rows[i]) ELSE rows[i]>>
            \o ReadFrom(rows, i + 1, FALSE)

ReadRowsExclusive(rows) ==
    IF \E q \in Procs : pc[q] = "open" THEN <<>> ELSE ReadFrom(rows, 1, FALSE)

ReadRows(rows) == ReadFrom(rows, 1, FALSE)

\* Under a header line that is itself a hole, the first line (the NUL bytes
\* and the first row after them) is taken for the column names; whether any
\* row is left after it.
RowsUnderDamagedHeader ==
    \E i \in 1..Len(file) : file[i] # HoleRow /\ i < Len(file)

Active(q) == pc[q] \in {"open", "write"}

\* The file after one cell of `table` is written at cell offset `off` (0 is
\* the header line, k >= 1 the k-th row): the cell replaces what was there;
\* cells between the end of the file and the offset become NUL.
HdrAfterWrite(off) ==
    IF off = 0 THEN "ok" ELSE IF fileHdr = "none" THEN "hole" ELSE fileHdr

RowsAfterWrite(off, table) ==
    IF off = 0 THEN file
    ELSE [i \in 1..(IF Len(file) > off THEN Len(file) ELSE off) |->
            IF i = off THEN table[off]
            ELSE IF i <= Len(file) THEN file[i] ELSE HoleRow]

\* ------------------------------------------------------- workflow values
\* An optional integer field: JSON null (None), or the integer.
Null   == <<>>
Num(n) == <<n>>

\* showtime_str as its space-separated words.  None and '' are both the empty
\* sequence: the handler tests the field for truth only (lines 443, 450).
NoShowtime == <<>>
ShowtimeStrs ==
    { NoShowtime, <<"2024-12-15", "17:30">>, <<"2024-12-15", "at", "17:30">>,
      <<"17:30">>, <<"Saturday", "at", "17:30">> }

\* A MovieIntent (lines 27-37).  city, genre and time_context are left out:
\* they reach the text of oracle queries and of responses only.
MovieIntent(intent, movie_name, locality, cinema_name, showtime_str, num_tickets, language) ==
    [intent |-> intent, movie_name |-> movie_name, locality |-> locality,
     cinema_name |-> cinema_name, showtime_str |-> showtime_str,
     num_tickets |-> num_tickets, language |-> language]

NoIntent == MovieIntent("none", NoneVal, NoneVal, NoneVal, NoShowtime, Null, NoneVal)

\* intent is a free string: the four kinds the router names, "general", and
\* "greeting" for any other string.
IntentKinds ==
    {"movie_review", "showtimes", "cinema_location", "book_tickets",
     "general", "greeting"}

BookingIntents ==
    { MovieIntent("book_tickets", m, NoneVal, c, s, n, l) :
        m \in {NoneVal, "", "Dune"}, c \in {NoneVal, "PVR"},
        s \in ShowtimeStrs,
        n \in {Null} \cup {Num(k) : k \in TicketCounts},
        l \in {NoneVal, "Hindi"} }

LookupIntents ==
    { MovieIntent(k, m, loc, c, NoShowtime, Null, NoneVal) :
        k \in IntentKinds \ {"book_tickets"}, m \in {NoneVal, "Dune"},
        loc \in {NoneVal, "Indiranagar"}, c \in {NoneVal, "PVR"} }

\* What llm.structured_predict (line 120) can do: return a MovieIntent, or
\* fail (an exception, output that does not validate).
ExtractorOutcomes ==
    { [ok |-> TRUE, parsed_query |-> i] : i \in BookingIntents \cup LookupIntents }
      \cup { [ok |-> FALSE, parsed_query |-> NoIntent] }

\* The user's text, and whether 'in', 'at' or 'near' occurs in it (line 137).
UserQueries == {"show Dune today", "shows at PVR"}
MentionsPlace(user_query) == user_query = "shows at PVR"

\* model_dump_json() followed by json.loads(): a dict with every field of the
\* model as a key, the unset ones with the value None.
ModelDumpJson(parsed_query) ==
    [k \in DOMAIN parsed_query |-> parsed_query[k]]

\* dict.get(key, default).
Get(d, key, default) == IF key \in DOMAIN d THEN d[key] ELSE default

\* `not v` for a string or None.
Falsy(v) == v = NoneVal \/ v = ""

\* Events of the workflow.  "Exception" stands for a step that raised: the
\* run ends and workflow.run() raises.
Event(type, input) == [type |-> type, input |-> input]
NoEvent   == Event("none", <<>>)
Raised    == Event("Exception", <<>>)
HandlerEvents ==
    {"MovieReviewEvent", "ShowtimesEvent", "CinemaLocationEvent", "BookTicketsEvent"}

\* The text of a response: which message it is, what it lists, and whether it
\* carries a confirmation number.
Response(kind, detail, code) == [kind |-> kind, detail |-> detail, code |-> code]
StopEvent(response) == Event("StopEvent", response)

\* The text the search oracle returns, as lines and the newlines between
\* them, with or without a newline at the end.
NL      == <<"\n", 0>>
Line(k) == <<"showtime", k>>
Text(n, trailing) ==
    [i \in 1..(IF n = 0 THEN 0 ELSE IF trailing THEN 2 * n ELSE 2 * n - 1) |->
        IF i % 2 = 1 THEN Line((i + 1) \div 2) ELSE NL]
OracleTexts == { Text(n, t) : n \in 0..MaxLines, t \in BOOLEAN }

\* str.count('\n'), and the lines that are not empty.
NewlineCount(text) == Cardinality({ i \in 1..Len(text) : text[i] = NL })
Candidates(text)   == SelectSeq(text, LAMBDA t : t # NL)

\* What the oracle returns for the query of one exact showtime: nothing, the
\* showtime in the form of the index (llama_index_builder.py line 71), a
\* showtime no row has, or a bare CSV row.
QueryCsvRow == <<"PVR,MG-Road,Dune,Hindi,2024-12-15,17:30,2">>
SpecificResults == { <<>>, QueryShow, QueryOtherTime, QueryCsvRow }

\* The I/O of one book_tickets call: whether the file can be read, and how
\* many cells (header, then rows) the writer gets out before it fails.
IOs(rows) == [read : BOOLEAN, cells : 0..(Len(rows) + 1)]

\* The run has done nothing yet.
NoTurn ==
    [extracted |-> "none", intent |-> NoIntent, extractor |-> 0,
     dispatches |-> 0, route |-> "none", handlers |-> 0, oracle |-> 0,
     movie_info |-> 0, reads |-> 0, writes |-> 0, results |-> <<>>,
     booked |-> <<>>, top_k |-> 0]

\* similarity_top_k of the retriever as constructed (line 59), as
\* handle_showtimes sets it (line 278) and as handle_cinema_location sets it
\* for an intent with a locality (line 370).
TopKConstructed == 5
TopKShowtimes   == 10
TopKCinema      == 3

\* No run of the workflow is in progress, and none has been made.
TurnIdle ==
    /\ event = NoEvent
    /\ turn = NoTurn
    /\ similarity_top_k = TopKConstructed

\* ----------------------------------------------------------- chat values
\* The chats a Telegram bot serves, and the key of the terminal's one
\* conversation in `log`.
Users == {"u1", "u2"}
Chats == Users \cup {"terminal"}
FrontEnds == {"terminal", "webhook", "polling"}

\* MAX_HISTORY of the terminal loop, of python_telegram_bot.py (webhook) and
\* of python-telegram-bot.py (polling).
MAX_HISTORY_terminal == 20
MAX_HISTORY_webhook  == 20
MAX_HISTORY_polling  == 10

\* A history entry "User: ..." or "Bot: ...": its role, and its place among
\* the entries of its chat since the chat began.
Entry(role, n) == [role |-> role, n |-> n]

\* if len(h) > max: h = h[-max:]
Trim(h, max) ==
    IF Len(h) > max THEN SubSeq(h, Len(h) - max + 1, Len(h)) ELSE h

\* No front end is running.
ChatIdle ==
    /\ frontend = "none"
    /\ history = <<>>
    /\ chat_histories = [u \in {} |-> <<>>]
    /\ log = [c \in Chats |-> <<>>]
    /\ handled = 0
    /\ handed = <<>>

\* ------------------------------------------------------------ bot values
\* The handler tasks that can be in progress at once.
Tasks == {"t1", "t2"}

\* Updates by who sent them where: effective_chat.id and effective_user.id.
\* In a private chat the two are the same id; in a group they are not.
Update(chat, user) == [chat |-> chat, user |-> user]
Updates == {Update("u1", "u1"), Update("g", "u1"), Update("g", "u2")}

\* The key of the history in chat_histories: effective_user.id in
\* python_telegram_bot.py (lines 58, 86), effective_chat.id in
\* python-telegram-bot.py (lines 130, 170).
HistoryKey(f, update) == IF f = "webhook" THEN update.user ELSE update.chat

\* Message texts, as their words.
Texts == { <<"Hello">>, <<"Dune">>, <<"show", "Dune">>, <<"hello", "there">> }

LowerWord(w) == IF w = "Hello" THEN "hello" ELSE w

\* generic_inputs of python-telegram-bot.py, lines 82 and 141.
GenericWords == {"hello", "hi", "hey", "help", "start"}

\* Lines 141-142 with the test of the number of words left out.
IsGenericGreetingOnly(text) ==
    Len(text) = 1 /\ LowerWord(text[1]) \in GenericWords

\* python-telegram-bot.py lines 141-142 (and 82-83): the text, lowered, is
\* one of the greetings, or it has fewer than two words.
IsGeneric(text) ==
    \/ Len(text) = 1 /\ LowerWord(text[1]) \in GenericWords
    \/ Len(text) < 2

\* A history entry of a bot: its role and the number of the update it
\* belongs to.
BotEntry(role, n) == [role |-> role, n |-> n]

\* No update is being handled by the task.
NoTask ==
    [pc |-> "idle", kind |-> "none", update |-> Update("none", "none"),
     text |-> <<>>, n |-> 0, reply |-> "none", runs |-> 0]

BotsIdle == tasks = [t \in Tasks |-> NoTask]

\* ---------------------------------------------------- remote store values
\* Film names and search strings, as their characters.
FilmNames ==
    { <<"D", "u", "n", "e">>, <<"D", "u", "n", "e", " ", "2">>,
      <<"M", "o", "a", "n", "a">> }

\* movie_name of a call: None or '' (both false at line 50), a name in
\* another case, a part of a name, a name no film has.
NoName == <<>>
MovieNames ==
    { NoName, <<"d", "u", "n", "e">>, <<"M", "o", "a">>, <<"U", "p">> }

Dates == {"2024-12-15", "2024-12-16"}

\* Case folding of one character, as ILIKE compares.
FoldChar(c) ==
    CASE c = "D" -> "d"
      [] c = "M" -> "m"
      [] c = "U" -> "u"
      [] OTHER   -> c

Fold(name) == [i \in 1..Len(name) |-> FoldChar(name[i])]

\* film_name ILIKE '%movie_name%' (line 41): the search string occurs in the
\* film name, case ignored.
ILike(film_name, movie_name) ==
    \E i \in 1..(Len(film_name) - Len(movie_name) + 1) :
        SubSeq(Fold(film_name), i, i + Len(movie_name) - 1) = Fold(movie_name)

MovieRow(id, film_name) == [id |-> id, film_name |-> film_name]
ShowtimeRow(id, film_id, date) == [id |-> id, film_id |-> film_id, date |-> date]

\* The tables the remote store can hold: rows numbered in table order.
MovieTables ==
    UNION { { [i \in 1..n |-> MovieRow(i, names[i])] : names \in [1..n -> FilmNames] }
            : n \in 0..MaxFilms }

ShowtimeTables ==
    UNION { { [i \in 1..n |-> ShowtimeRow(i, films[i], dates[i])] :
                 films \in [1..n -> 1..MaxFilms], dates \in [1..n -> Dates] }
            : n \in 0..MaxShows }

\* No call of fetch_showtimes_for_movie is in progress.
NoFetch ==
    [pc |-> "idle", movie_name |-> NoName, date |-> NoneVal, answered |-> 0,
     data |-> <<>>]

FetchIdle ==
    /\ fetch = NoFetch
    /\ movies_table = <<MovieRow(1, <<"D", "u", "n", "e">>)>>
    /\ showtimes_table = <<ShowtimeRow(1, 1, "2024-12-15")>>

\* --------------------------------------------------------- filter values
\* A time of day as the characters of "HH:MM".
TimeStr(d1, d2) == <<d1, d2, ":", "0", "0">>

\* The times of the shows: the first hour of the morning, and the hours on
\* both sides of the two edges of the evening (16:00 in the afternoon, 21:00
\* in the night).
ShowTimes ==
    { TimeStr("0", "5"), TimeStr("1", "6"), TimeStr("1", "7"), TimeStr("2", "0"),
      TimeStr("2", "1") }

Show(date, time) == [date |-> date, time |-> time]

ShowLists ==
    UNION { [1..n -> { Show(d, h) : d \in Dates, h \in ShowTimes }] : n \in 0..MaxShown }

\* date_filter and time_filter, as their words; <<>> is None or ''.
DateFilters == { <<>>, <<"Today">>, <<"tomorrow">>, <<"weekend">> }
TimeFilters == { <<>>, <<"Evening">>, <<"tonight">>, <<"7pm">>,
                 <<"morning", "or", "night">> }

\* datetime.now() as a date, and the day after it (lines 24-25).
Today    == "2024-12-15"
Tomorrow == "2024-12-16"

\* No call of filter_showtimes is in progress.
NoFiltering ==
    [pc |-> "idle", showtimes |-> <<>>, date_filter |-> <<>>,
     time_filter |-> <<>>, out |-> <<>>]

FilterIdle == filtering = NoFiltering

\* --------------------------------------------------------- listing values
\* A line of the oracle's text with its nine comma-separated parts, as the
\* parts the response uses: parts[0], [1], [4], [5], [7], [8].
RawLine(theater, address, movie, lang, date, time) ==
    <<theater, address, movie, lang, date, time>>

\* A line with fewer than nine parts (line 309).
ShortLine == <<"short">>

Theaters == {<<"PVR", "Indiranagar">>, <<"INOX", "Koramangala">>}
Times    == {"17:30", "22:15"}

RawLines ==
    { RawLine(t[1], t[2], "Dune", "Hindi", d, h) :
          t \in Theaters, d \in Dates, h \in Times } \cup {ShortLine}

\* raw_results of line 287: the text is not blank (line 282), so there is
\* at least one line.
RawResults == UNION { [1..n -> RawLines] : n \in 1..MaxRaw }

Localities == {NoneVal, "indiranagar"}

\* Nothing is being formatted.
NoListing == [pc |-> "idle", raw |-> <<>>, locality |-> NoneVal, out |-> <<>>]

ListingIdle == listing = NoListing

\* ---------------------------------------------------------------- actions
\* The store as seeded, and no call of book_tickets in progress.
InitBooking ==
    /\ fileHdr = "ok"
    /\ \E L \in Layouts : \E n \in 0..MaxSeats :
           file = <<Row(L[1], n), Row(L[2], MaxSeats)>>
    /\ initial = file
    /\ pc = [p \in Procs |-> "idle"]
    /\ args = [p \in Procs |-> NoRequest]
    /\ fieldnames = [p \in Procs |-> "none"]
    /\ showtimes = [p \in Procs |-> <<>>]
    /\ matched = [p \in Procs |-> 0]
    /\ avail = [p \in Procs |-> -1]
    /\ woff = [p \in Procs |-> 0]
    /\ result = [p \in Procs |-> "none"]
    /\ started = 0
    /\ overlap = [p \in Procs |-> FALSE]
    /\ sold = [i \in 1..2 |-> 0]

Init ==
    /\ InitBooking /\ TurnIdle /\ ChatIdle
    /\ FetchIdle /\ ListingIdle /\ BotsIdle /\ FilterIdle

\* History kept at the entry of a call.
Enter(p) ==
    /\ pc[p] = "idle"
    /\ started < MaxCalls
    /\ started' = started + 1
    /\ UNCHANGED <<turnVars, chatVars, fetchVars, listing, tasks, filtering>>
    /\ overlap' = [q \in Procs |->
                     IF q = p THEN \E r \in Procs \ {p} : Active(r)
                     ELSE overlap[q] \/ Active(q)]

\* A return: the result reaches the caller and the locals of the call are
\* gone.  `left` is the seat count the message reports, -1 if it reports none.
Finish(p, req, res, left) ==
    /\ pc' = [pc EXCEPT ![p] = "done"]
    /\ result' = [result EXCEPT ![p] = res]
    /\ args' = [args EXCEPT ![p] = req]
    /\ avail' = [avail EXCEPT ![p] = left]
    /\ fieldnames' = [fieldnames EXCEPT ![p] = "none"]
    /\ showtimes' = [showtimes EXCEPT ![p] = <<>>]
    /\ matched' = [matched EXCEPT ![p] = 0]
    /\ woff' = [woff EXCEPT ![p] = 0]

\* Lines 66-98 and 109-113 when the read does not raise and the header line
\* is intact (or the file is empty): read, parse, match, check; then either
\* return or go on to the write with the seat count of matching_show already
\* updated in the list (line 98).
BookRead(p, req) ==
    /\ Enter(p)
    /\ fileHdr # "hole"
    /\ UNCHANGED <<fileHdr, file, sold, initial>>
    /\ LET rows == ReadRows(file)
           m    == FirstMatch(rows, req.query_result, req.movie_name, req.theater_name)
       IN  IF ~WellFormed(req.query_result)
           THEN Finish(p, req, "invalid_format", -1)
           ELSE IF m = 0
           THEN Finish(p, req, "not_found", -1)
           ELSE IF ~EnoughSeats(rows[m].available_seats, req.num_tickets)
           THEN Finish(p, req, "insufficient", rows[m].available_seats)
           ELSE /\ pc' = [pc EXCEPT ![p] = "open"]
                /\ args' = [args EXCEPT ![p] = req]
                /\ fieldnames' = [fieldnames EXCEPT ![p] = fileHdr]
                /\ matched' = [matched EXCEPT ![p] = m]
                /\ avail' = [avail EXCEPT ![p] = rows[m].available_seats]
                /\ showtimes' = [showtimes EXCEPT ![p] =
                      [rows EXCEPT ![m].available_seats =
                          NewSeats(rows[m].available_seats, req.num_tickets)]]
                /\ UNCHANGED <<result, woff>>

\* The same lines on a file that holds NUL bytes.  Either the read raises
\* (csv.Error from list(reader) on interpreters that reject NUL, or KeyError
\* at line 85 on a row read under a damaged header) and the except clause of
\* lines 115-117 returns the booking error; or, under a damaged header with
\* no row to look at, the call falls through to line 111 or line 113.
BookReadGarbage(p, req) ==
    /\ Enter(p)
    /\ HasNul
    /\ UNCHANGED <<fileHdr, file, sold, initial>>
    /\ \/ Finish(p, req, "booking_error", -1)
       \/ /\ fileHdr = "hole"
          /\ ~WellFormed(req.query_result)
          /\ Finish(p, req, "invalid_format", -1)
       \/ /\ fileHdr = "hole"
          /\ WellFormed(req.query_result)
          /\ ~RowsUnderDamagedHeader
          /\ Finish(p, req, "not_found", -1)

\* Line 102: open(..., "w") truncates the file.
OpenWrite(p) ==
    /\ pc[p] = "open"
    /\ pc' = [pc EXCEPT ![p] = "write"]
    /\ fileHdr' = "none"
    /\ file' = <<>>
    /\ woff' = [woff EXCEPT ![p] = 0]
    /\ UNCHANGED <<locals, result, started, overlap, sold, initial>>
    /\ UNCHANGED <<turnVars, chatVars, fetchVars, listing, tasks, filtering>>

\* Line 102 raising (the file cannot be opened for writing): lines 115-117.
OpenFail(p) ==
    /\ pc[p] = "open"
    /\ Finish(p, args[p], "booking_error", -1)
    /\ UNCHANGED <<fileHdr, file, started, overlap, sold, initial>>
    /\ UNCHANGED <<turnVars, chatVars, fetchVars, listing, tasks, filtering>>

\* Lines 104-105: the next cell reaches the file; after the last row the
\* file is closed and line 107 returns success.
WriteCell(p) ==
    /\ pc[p] = "write"
    /\ fileHdr' = HdrAfterWrite(woff[p])
    /\ file' = RowsAfterWrite(woff[p], showtimes[p])
    /\ IF woff[p] = Len(showtimes[p])
       THEN /\ Finish(p, args[p], "success", -1)
            /\ sold' = [sold EXCEPT ![matched[p]] = @ + args[p].num_tickets]
       ELSE /\ woff' = [woff EXCEPT ![p] = @ + 1]
            /\ UNCHANGED <<pc, result, sold, locals>>
    /\ UNCHANGED <<started, overlap, initial>>
    /\ UNCHANGED <<turnVars, chatVars, fetchVars, listing, tasks, filtering>>

\* Lines 104-105 raising part-way (an I/O error after the open): lines
\* 115-117 return the booking error; what was written stays.
WriteFail(p) ==
    /\ pc[p] = "write"
    /\ Finish(p, args[p], "booking_error", -1)
    /\ UNCHANGED <<fileHdr, file, started, overlap, sold, initial>>
    /\ UNCHANGED <<turnVars, chatVars, fetchVars, listing, tasks, filtering>>

\* The caller has its result and may call again.
Return(p) ==
    /\ pc[p] = "done"
    /\ pc' = [pc EXCEPT ![p] = "idle"]
    /\ args' = [args EXCEPT ![p] = NoRequest]
    /\ avail' = [avail EXCEPT ![p] = -1]
    /\ result' = [result EXCEPT ![p] = "none"]
    /\ overlap' = [overlap EXCEPT ![p] = FALSE]
    /\ UNCHANGED <<fileHdr, file, fieldnames, showtimes, matched, woff,
                   started, sold, initial>>
    /\ UNCHANGED <<turnVars, chatVars, fetchVars, listing, tasks, filtering>>

Next ==
    \E p \in Procs :
        \/ \E req \in Requests : BookRead(p, req)
        \/ \E req \in Requests : BookReadGarbage(p, req)
        \/ OpenWrite(p)
        \/ OpenFail(p)
        \/ WriteCell(p)
        \/ WriteFail(p)
        \/ Return(p)

Spec == Init /\ [][Next]_vars

\* One caller making its calls one after the other, with the ticket counts
\* the handler can pass on (chatbot.py line 421 takes the extractor's integer
\* as it is): the positive ones, zero and a negative one.  The file of a
\* single caller never holds NUL bytes, so every read is BookRead.
UncheckedCounts == {-1, 0}

Attempts ==
    Requests \cup { Request(QueryShow, n, "Dune") : n \in UncheckedCounts }

NextAttempts ==
    LET p == "p1"
    IN  \/ \E req \in Attempts : BookRead(p, req)
        \/ OpenWrite(p)
        \/ OpenFail(p)
        \/ WriteCell(p)
        \/ WriteFail(p)
        \/ Return(p)

SpecAttempts == Init /\ [][NextAttempts]_vars

\* ============================================================ the workflow
\* One run of ChatbotWorkflow (chat_with_user, lines 520-525) at a time: the
\* start step, then the handler of the event it emits.  A step is one action;
\* what the intent extractor, the search oracle, the movie-info service and
\* the file system do is chosen by the environment.

\* 'at' as a substring of a word of showtime_str (line 453).
AtCount(word) == IF word \in {"at", "Saturday"} THEN 1 ELSE 0
AtTotal(showtime_str) ==
    Cardinality({ i \in 1..Len(showtime_str) : AtCount(showtime_str[i]) = 1 })

\* Lines 453-456 unpack into (date, time) without a ValueError: split('at')
\* gives two pieces, or there is no 'at' and split(' ', 1) gives two.
ShowtimeSplits(showtime_str) ==
    IF AtTotal(showtime_str) >= 1 THEN AtTotal(showtime_str) = 1
    ELSE Len(showtime_str) >= 2

\* Lines 133-144 with the showtimes and the review handler exchanged.
HandlerEventSwapped(intent) ==
    CASE intent = "movie_review"    -> "ShowtimesEvent"
      [] intent = "showtimes"       -> "MovieReviewEvent"
      [] intent = "cinema_location" -> "CinemaLocationEvent"
      [] intent = "book_tickets"    -> "BookTicketsEvent"
      [] OTHER                      -> "none"

\* Lines 133-144: the event the start step emits for an intent, "none" for
\* the else branch of line 145.
HandlerEvent(intent) ==
    CASE intent = "movie_review"    -> "MovieReviewEvent"
      [] intent = "showtimes"       -> "ShowtimesEvent"
      [] intent = "cinema_location" -> "CinemaLocationEvent"
      [] intent = "book_tickets"    -> "BookTicketsEvent"
      [] OTHER                      -> "none"

\* The name of the branch, for the history.
Route(type) ==
    CASE type = "MovieReviewEvent"    -> "review"
      [] type = "ShowtimesEvent"      -> "showtimes"
      [] type = "CinemaLocationEvent" -> "cinema"
      [] type = "BookTicketsEvent"    -> "booking"
      [] OTHER                        -> "general"

\* Lines 137-139: a showtimes intent loses locality and cinema_name when the
\* user's text has none of 'in', 'at', 'near'.
EventInput(parsed_query, user_query) ==
    IF parsed_query.intent = "showtimes" /\ ~MentionsPlace(user_query)
    THEN ModelDumpJson([parsed_query EXCEPT !.locality = NoneVal,
                                            !.cinema_name = NoneVal])
    ELSE ModelDumpJson(parsed_query)

\* The except branch of lines 149-151 starting the step over.
OnStartExceptionRetry(user_query) == Event("StartEvent", user_query)

\* Lines 149-151.
OnStartException(user_query) == StopEvent(Response("apology", <<>>, FALSE))

\* chat_with_user, line 524: the run begins with the StartEvent.
workflow_run(user_query) ==
    /\ event.type = "none"
    /\ event' = Event("StartEvent", user_query)
    /\ turn' = NoTurn
    /\ UNCHANGED similarity_top_k
    /\ UNCHANGED <<fileHdr, file, calls, chatVars, fetchVars, listing, tasks, filtering>>

\* The start step, lines 105-151.
start ==
    /\ event.type = "StartEvent"
    /\ \E out \in ExtractorOutcomes : \E raises \in BOOLEAN :
         LET intent == out.parsed_query.intent
             seen   == [turn EXCEPT !.extractor = @ + 1,
                                    !.extracted = IF out.ok THEN "ok" ELSE "failed",
                                    !.intent = out.parsed_query]
         IN IF ~out.ok
            THEN /\ event' = OnStartException(event.input)
                 /\ turn' = seen
            ELSE IF HandlerEvent(intent) # "none"
            THEN /\ event' = Event(HandlerEvent(intent),
                                   EventInput(out.parsed_query, event.input))
                 /\ turn' = [seen EXCEPT !.dispatches = @ + 1,
                                         !.route = Route(HandlerEvent(intent))]
            ELSE /\ event' = IF raises THEN OnStartException(event.input)
                             ELSE StopEvent(Response("general_answer", <<>>, FALSE))
                 /\ turn' = [seen EXCEPT !.dispatches = @ + 1,
                                         !.route = "general",
                                         !.oracle = @ + 1,
                                         !.top_k = similarity_top_k]
    /\ UNCHANGED similarity_top_k
    /\ UNCHANGED <<fileHdr, file, calls, chatVars, fetchVars, listing, tasks, filtering>>

\* handle_movie_review, lines 153-188.  fetch_movie_details returns the
\* details, or a dict without "Response" when the title is unknown or the
\* request fails (omdb_integration.py lines 23-25, 57-59).
handle_movie_reviewSellsSeat ==
    /\ event.type = "MovieReviewEvent"
    /\ \E found \in BOOLEAN :
         LET movie_name == Get(event.input, "movie_name", NoneVal)
         IN IF Falsy(movie_name)
            THEN /\ event' = StopEvent(Response("specify_title", <<>>, FALSE))
                 /\ turn' = [turn EXCEPT !.handlers = @ + 1]
            ELSE /\ event' = StopEvent(Response(IF found THEN "movie_details"
                                                ELSE "movie_not_found", <<>>, FALSE))
                 /\ turn' = [turn EXCEPT !.handlers = @ + 1, !.movie_info = @ + 1]
    /\ file' = [file EXCEPT ![2].available_seats = @ - 1]
    /\ UNCHANGED similarity_top_k
    /\ UNCHANGED <<fileHdr, calls, chatVars, fetchVars, listing, tasks, filtering>>

handle_movie_review ==
    /\ event.type = "MovieReviewEvent"
    /\ \E found \in BOOLEAN :
         LET movie_name == Get(event.input, "movie_name", NoneVal)
         IN IF Falsy(movie_name)
            THEN /\ event' = StopEvent(Response("specify_title", <<>>, FALSE))
                 /\ turn' = [turn EXCEPT !.handlers = @ + 1]
            ELSE /\ event' = StopEvent(Response(IF found THEN "movie_details"
                                                ELSE "movie_not_found", <<>>, FALSE))
                 /\ turn' = [turn EXCEPT !.handlers = @ + 1, !.movie_info = @ + 1]
    /\ UNCHANGED similarity_top_k
    /\ UNCHANGED <<fileHdr, file, calls, chatVars, fetchVars, listing, tasks, filtering>>

\* handle_showtimes, lines 190-350: the whole body is inside try.  The
\* retriever is set to 10 results (line 278) for the query of line 279.
handle_showtimes ==
    /\ event.type = "ShowtimesEvent"
    /\ \E raises \in BOOLEAN : \E results \in OracleTexts :
         event' = StopEvent(Response(
                     IF raises THEN "sorry_showtimes"
                     ELSE IF results = <<>> THEN "no_showtimes"
                     ELSE "showtimes", <<>>, FALSE))
    /\ similarity_top_k' = TopKShowtimes
    /\ turn' = [turn EXCEPT !.handlers = @ + 1, !.oracle = @ + 1,
                            !.top_k = similarity_top_k']
    /\ UNCHANGED <<fileHdr, file, calls, chatVars, fetchVars, listing, tasks, filtering>>

\* The text the oracle returns for cinemas: nothing, cinemas with their
\* address after a comma, or a line without a comma.
CinemaTexts == { <<>>, <<"PVR, MG Road">>, <<"PVR">> }
HasAddress(line) == line = "PVR, MG Road"

\* handle_cinema_location, lines 352-412: the oracle is queried at line 372,
\* outside the try of line 377, after the retriever is set to 3 results for
\* an intent with a locality (lines 369-370).
handle_cinema_location ==
    /\ event.type = "CinemaLocationEvent"
    /\ \E raises \in BOOLEAN : \E results \in CinemaTexts :
         event' = IF raises THEN Raised
                  ELSE IF results = <<>>
                  THEN StopEvent(Response("no_cinemas", <<>>, FALSE))
                  ELSE IF \A i \in 1..Len(results) : ~HasAddress(results[i])
                  THEN StopEvent(Response("no_valid_cinemas", <<>>, FALSE))
                  ELSE StopEvent(Response("cinemas", results, FALSE))
    /\ similarity_top_k' =
          IF Falsy(Get(event.input, "locality", NoneVal)) THEN similarity_top_k
          ELSE TopKCinema
    /\ turn' = [turn EXCEPT !.handlers = @ + 1, !.oracle = @ + 1,
                            !.top_k = similarity_top_k']
    /\ UNCHANGED <<fileHdr, file, calls, chatVars, fetchVars, listing, tasks, filtering>>

\* Lines 427-429 naming both fields whatever is missing.
MissingBoth(movie_name, cinema_name) == <<"movie name", "cinema location">>

\* Lines 427-429.
Missing(movie_name, cinema_name) ==
    (IF Falsy(movie_name) THEN <<"movie name">> ELSE <<>>)
      \o (IF Falsy(cinema_name) THEN <<"cinema location">> ELSE <<>>)

\* book_tickets run with no other caller on the file: its result, the file
\* it leaves, and its accesses to the file.
BookTickets(rows, query_result, num_tickets, movie_name, theater_name, io) ==
    LET m     == FirstMatch(rows, query_result, movie_name, theater_name)
        table == [rows EXCEPT ![m].available_seats =
                     NewSeats(rows[m].available_seats, num_tickets[1])]
        Fails(res, r) ==
            [result |-> res, hdr |-> "ok", rows |-> rows, reads |-> r, writes |-> 0]
    IN IF ~io.read THEN Fails("booking_error", 1)
       ELSE IF ~WellFormed(query_result) THEN Fails("invalid_format", 1)
       ELSE IF m = 0 THEN Fails("not_found", 1)
       ELSE IF num_tickets = Null THEN Fails("booking_error", 1)
       ELSE IF ~EnoughSeats(rows[m].available_seats, num_tickets[1])
       THEN Fails("insufficient", 1)
       ELSE IF io.cells <= Len(rows)
       THEN [result |-> "booking_error",
             hdr |-> IF io.cells = 0 THEN "none" ELSE "ok",
             rows |-> SubSeq(table, 1, io.cells - 1), reads |-> 1, writes |-> 1]
       ELSE [result |-> "success", hdr |-> "ok", rows |-> table,
             reads |-> 1, writes |-> 1]

\* Lines 493-507 with the confirmation number given whatever the result.
BookingResponseAlwaysCode(booking_result) == Response("booked", <<>>, TRUE)

\* Lines 487-507: the confirmation number goes with success only.
BookingResponse(booking_result) ==
    IF booking_result = "success" THEN Response("booked", <<>>, TRUE)
    ELSE Response("booking_failed", <<booking_result>>, FALSE)

\* The body of handle_book_tickets, lines 417-518: the response, the oracle
\* queries made, the text the first of them returned, the call of
\* book_tickets if any, and the file it leaves.
\* `fails` is the oracle query that raises, if any.
HandleBookTickets(parsed_query, results, specific_results, fails, io, rows) ==
    LET movie_name   == Get(parsed_query, "movie_name", NoneVal)
        cinema_name  == Get(parsed_query, "cinema_name", NoneVal)
        showtime_str == Get(parsed_query, "showtime_str", NoShowtime)
        num_tickets  == Get(parsed_query, "num_tickets", Num(1))
        Stops(kind, detail, queries) ==
            [response |-> Response(kind, detail, FALSE), oracle |-> queries,
             results |-> IF queries = 0 \/ fails = "first" THEN <<>> ELSE results,
             booked |-> <<>>, hdr |-> "ok", rows |-> rows,
             reads |-> 0, writes |-> 0]
        b == BookTickets(rows, specific_results, num_tickets, NoneVal, NoneVal, io)
    IN IF Falsy(movie_name) \/ Falsy(cinema_name)
       THEN Stops("missing", Missing(movie_name, cinema_name), 0)
       ELSE IF fails = "first" THEN Stops("check_showtimes", <<>>, 1)
       ELSE IF NewlineCount(results) > 1 /\ showtime_str = NoShowtime
       THEN Stops("disambiguation", results, 1)
       ELSE IF showtime_str = NoShowtime THEN Stops("specify_showtime", <<>>, 1)
       ELSE IF ~ShowtimeSplits(showtime_str) THEN Stops("check_showtimes", <<>>, 1)
       ELSE IF fails = "second" THEN Stops("check_showtimes", <<>>, 2)
       ELSE IF specific_results = <<>> THEN Stops("showtime_not_found", <<>>, 2)
       ELSE [response |-> BookingResponse(b.result), oracle |-> 2,
             results |-> results,
             booked |-> << [query_result |-> specific_results,
                            num_tickets |-> num_tickets,
                            movie_name |-> NoneVal, theater_name |-> NoneVal,
                            result |-> b.result] >>,
             hdr |-> b.hdr, rows |-> b.rows, reads |-> b.reads, writes |-> b.writes]

\* handle_book_tickets, lines 414-518.
handle_book_tickets ==
    /\ event.type = "BookTicketsEvent"
    /\ \E results \in OracleTexts : \E specific_results \in SpecificResults :
       \E fails \in {"none", "first", "second"} : \E io \in IOs(file) :
         LET o == HandleBookTickets(event.input, results, specific_results,
                                    fails, io, file)
         IN /\ event' = StopEvent(o.response)
            /\ turn' = [turn EXCEPT !.handlers = @ + 1,
                                    !.oracle = @ + o.oracle,
                                    !.reads = @ + o.reads,
                                    !.writes = @ + o.writes,
                                    !.results = o.results,
                                    !.booked = o.booked,
                                    !.top_k = IF o.oracle > 0
                                              THEN similarity_top_k ELSE @]
            /\ file' = IF o.writes > 0 THEN o.rows ELSE file
            /\ fileHdr' = IF o.writes > 0 THEN o.hdr ELSE fileHdr
    /\ UNCHANGED similarity_top_k
    /\ UNCHANGED <<calls, chatVars, fetchVars, listing, tasks, filtering>>

\* chat_with_user, lines 524-525: the run is over, with the text of the
\* StopEvent or with the exception of the step that raised.
workflow_done ==
    /\ event.type \in {"StopEvent", "Exception"}
    /\ event' = NoEvent
    /\ turn' = NoTurn
    /\ UNCHANGED similarity_top_k
    /\ UNCHANGED <<fileHdr, file, calls, chatVars, fetchVars, listing, tasks, filtering>>

NextTurn ==
    \/ \E user_query \in UserQueries : workflow_run(user_query)
    \/ start
    \/ handle_movie_review
    \/ handle_showtimes
    \/ handle_cinema_location
    \/ handle_book_tickets
    \/ workflow_done

SpecTurn == Init /\ [][NextTurn]_vars

\* ============================================================ front ends
\* The three programs that keep a conversation history: the terminal loop
\* of chatbot.py, the webhook bot python_telegram_bot.py and the polling bot
\* python-telegram-bot.py.  One of them runs; a message is handled in one
\* action.  chat_with_user of chatbot.py returns a text or raises (a step of
\* the workflow that raised); chat_with_user of the polling bot catches
\* everything (python-telegram-bot.py lines 114-127).

\* chat_histories[u] = h, and chat_histories.get(u, []).
SetHistory(u, h) ==
    [v \in DOMAIN chat_histories \cup {u} |->
        IF v = u THEN h ELSE chat_histories[v]]
HistoryOf(u) ==
    IF u \in DOMAIN chat_histories THEN chat_histories[u] ELSE <<>>

\* The entries a message adds to the log of chat c: the user's, then the
\* bot's if there is one.
NextEntries(c, answered) ==
    <<Entry("User", Len(log[c]) + 1)>>
      \o (IF answered THEN <<Entry("Bot", Len(log[c]) + 2)>> ELSE <<>>)

\* The program starts.
main(f) ==
    /\ frontend = "none"
    /\ frontend' = f
    /\ UNCHANGED <<history, chat_histories, log, handled, handed>>
    /\ UNCHANGED <<fileHdr, file, calls, turnVars, fetchVars, listing, tasks, filtering>>

\* One pass of the loop of chatbot.py lines 579-590.  An exception of
\* asyncio.run (line 586) is not caught: the program ends.
terminal_turn(raises) ==
    /\ frontend = "terminal"
    /\ handled < MaxMessages
    /\ handled' = handled + 1
    /\ LET asked == Trim(Append(history, NextEntries("terminal", FALSE)[1]),
                         MAX_HISTORY_terminal)
       IN IF raises
          THEN /\ history' = asked
               /\ frontend' = "crashed"
          ELSE /\ history' = Trim(Append(asked, NextEntries("terminal", TRUE)[2]),
                                  MAX_HISTORY_terminal)
               /\ frontend' = frontend
    /\ handed' = Trim(Append(history, NextEntries("terminal", FALSE)[1]),
                       MAX_HISTORY_terminal)
    /\ log' = [log EXCEPT !["terminal"] = @ \o NextEntries("terminal", ~raises)]
    /\ UNCHANGED chat_histories
    /\ UNCHANGED <<fileHdr, file, calls, turnVars, fetchVars, listing, tasks, filtering>>

\* Lines 581-582: "quit" or "exit" ends the loop.
terminal_quit ==
    /\ frontend = "terminal"
    /\ frontend' = "exited"
    /\ UNCHANGED <<history, chat_histories, log, handled, handed>>
    /\ UNCHANGED <<fileHdr, file, calls, turnVars, fetchVars, listing, tasks, filtering>>

\* handle_message of python_telegram_bot.py, lines 57-82: the user's entry is
\* appended before the try; the bot's entry and the trim are inside it,
\* after chat_with_user.
webhook_handle_message(u, raises) ==
    /\ frontend = "webhook"
    /\ handled < MaxMessages
    /\ handled' = handled + 1
    /\ LET asked == Append(HistoryOf(u), NextEntries(u, FALSE)[1])
       IN chat_histories' =
            SetHistory(u, IF raises THEN asked
                          ELSE Trim(Append(asked, NextEntries(u, TRUE)[2]),
                                    MAX_HISTORY_webhook))
    /\ handed' = Append(HistoryOf(u), NextEntries(u, FALSE)[1])
    /\ log' = [log EXCEPT ![u] = @ \o NextEntries(u, ~raises)]
    /\ UNCHANGED <<frontend, history>>
    /\ UNCHANGED <<fileHdr, file, calls, turnVars, fetchVars, listing, tasks, filtering>>

\* start of python_telegram_bot.py, lines 84-88.
webhook_start(u) ==
    /\ frontend = "webhook"
    /\ handled < MaxMessages
    /\ handled' = handled + 1
    /\ chat_histories' = SetHistory(u, <<>>)
    /\ log' = [log EXCEPT ![u] = <<>>]
    /\ UNCHANGED <<frontend, history, handed>>
    /\ UNCHANGED <<fileHdr, file, calls, turnVars, fetchVars, listing, tasks, filtering>>

\* formatted_history of chat_with_user of python-telegram-bot.py, lines
\* 89-107: nothing, or one of the bot's entries of the history (the last
\* that shows showtimes, for a message with "book" in it) after the entry
\* that precedes it.
FormattedHistories(h) ==
    { <<>> } \cup { <<h[i - 1], h[i]>> :
                      i \in { j \in 2..Len(h) : h[j].role = "Bot" } }

\* handle_message of python-telegram-bot.py, lines 129-166: a greeting or a
\* one-word message is answered with the welcome text and leaves the history
\* alone; any other message adds the user's and the bot's entry and trims.
polling_handle_message(u, generic) ==
    /\ frontend = "polling"
    /\ handled < MaxMessages
    /\ handled' = handled + 1
    /\ IF generic
       THEN /\ chat_histories' = SetHistory(u, HistoryOf(u))
            /\ log' = log
            /\ handed' = handed
       ELSE /\ chat_histories' =
                 SetHistory(u, Trim(HistoryOf(u) \o NextEntries(u, TRUE),
                                    MAX_HISTORY_polling))
            /\ log' = [log EXCEPT ![u] = @ \o NextEntries(u, TRUE)]
            /\ handed' \in FormattedHistories(HistoryOf(u))
    /\ UNCHANGED <<frontend, history>>
    /\ UNCHANGED <<fileHdr, file, calls, turnVars, fetchVars, listing, tasks, filtering>>

\* start of python-telegram-bot.py, lines 168-171.
polling_start(u) ==
    /\ frontend = "polling"
    /\ handled < MaxMessages
    /\ handled' = handled + 1
    /\ chat_histories' = SetHistory(u, <<>>)
    /\ log' = [log EXCEPT ![u] = <<>>]
    /\ UNCHANGED <<frontend, history, handed>>
    /\ UNCHANGED <<fileHdr, file, calls, turnVars, fetchVars, listing, tasks, filtering>>

\* The front ends do not depend on the table: one seeded table is enough.
InitChat ==
    /\ Init
    /\ file = <<Row(KeyDuneHindi, MaxSeats), Row(KeyMoanaHindi, MaxSeats)>>

NextChat ==
    \/ \E f \in FrontEnds : main(f)
    \/ \E raises \in BOOLEAN : terminal_turn(raises)
    \/ terminal_quit
    \/ \E u \in Users : \E raises \in BOOLEAN : webhook_handle_message(u, raises)
    \/ \E u \in Users : webhook_start(u)
    \/ \E u \in Users : \E generic \in BOOLEAN : polling_handle_message(u, generic)
    \/ \E u \in Users : polling_start(u)

SpecChat == InitChat /\ [][NextChat]_vars

\* ------------------------------------------------------------ remote store
\* A select with a filter returns the rows that pass it, in table order.
fetch_movie_by_nameAnyFilm(movie_name) ==
    LET data == movies_table
    IN  IF data # <<>> THEN <<data[1]>> ELSE <<>>

\* fetch_movie_by_name, lines 39-44, when the store answers: the first row
\* whose film_name holds movie_name, as a one-row sequence; <<>> for None.
fetch_movie_by_name(movie_name) ==
    LET Keep(row) == ILike(row.film_name, movie_name)
        data == SelectSeq(movies_table, Keep)
    IN  IF data # <<>> THEN <<data[1]>> ELSE <<>>

\* Lines 59-72 when the store answers: the Showtimes rows of the film, of the
\* given date when there is one.
QueryShowtimes(film_id, date) ==
    LET Keep(row) == row.film_id = film_id /\ (date = NoneVal \/ row.date = date)
    IN  SelectSeq(showtimes_table, Keep)

\* fetch_showtimes_for_movie, lines 46-72.  `fails` is the query the store
\* does not answer (the client raises, and nothing catches it here);
\* `answered` counts the queries it did answer.
fetch_showtimes_for_movie(movie_name, date) ==
    /\ fetch.pc = "idle"
    /\ \E fails \in {"none", "movies", "Showtimes"} :
         LET call  == [fetch EXCEPT !.movie_name = movie_name, !.date = date]
             movie == fetch_movie_by_name(movie_name)
         IN  fetch' =
               IF movie_name = NoName
               THEN [call EXCEPT !.pc = "returned", !.data = <<>>]
               ELSE IF fails = "movies"
               THEN [call EXCEPT !.pc = "raised"]
               ELSE IF movie = <<>>
               THEN [call EXCEPT !.pc = "returned", !.answered = 1, !.data = <<>>]
               ELSE IF fails = "Showtimes"
               THEN [call EXCEPT !.pc = "raised", !.answered = 1]
               ELSE [call EXCEPT !.pc = "returned", !.answered = 2,
                                 !.data = QueryShowtimes(movie[1].id, date)]
    /\ UNCHANGED <<movies_table, showtimes_table>>
    /\ UNCHANGED <<fileHdr, file, calls, turnVars, chatVars, listing, tasks, filtering>>

\* The caller has the rows, or the exception.
fetch_done ==
    /\ fetch.pc \in {"returned", "raised"}
    /\ fetch' = NoFetch
    /\ UNCHANGED <<movies_table, showtimes_table>>
    /\ UNCHANGED <<fileHdr, file, calls, turnVars, chatVars, listing, tasks, filtering>>

\* The remote store holds any tables of the bounded sizes; the rest of the
\* program is at rest.
InitFetch ==
    /\ InitBooking
    /\ file = <<Row(KeyDuneHindi, MaxSeats), Row(KeyMoanaHindi, MaxSeats)>>
    /\ TurnIdle
    /\ ChatIdle
    /\ ListingIdle
    /\ BotsIdle
    /\ FilterIdle
    /\ fetch = NoFetch
    /\ movies_table \in MovieTables
    /\ showtimes_table \in ShowtimeTables

NextFetch ==
    \/ \E movie_name \in MovieNames : \E date \in Dates \cup {NoneVal} :
          fetch_showtimes_for_movie(movie_name, date)
    \/ fetch_done

SpecFetch == InitFetch /\ [][NextFetch]_vars

\* ------------------------------------------------------- showtimes listing
\* Lines of the response.
HeaderLine(locality)      == <<"header", locality>>
RuleLine                  == <<"rule">>
BlankLine                 == <<"">>
TheaterLine(theater, address) == <<"theater", theater, address>>
ShowLine(movie, lang, date, time) == <<"show", movie, lang, date, time>>

\* Line 314 with nothing skipped.
OutsideLocalityNever(locality, theater, address) == FALSE

\* Line 314: the line is skipped when the locality is in neither the theater
\* name nor the address, case ignored.  The model's localities are whole
\* names, so 'in' is equality of the lowered strings.
OutsideLocality(locality, theater, address) ==
    /\ ~Falsy(locality)
    /\ Lower(locality) # Lower(theater)
    /\ Lower(locality) # Lower(address)

\* Line 324: the key of a showtime already listed.
ShowtimeKey(line) == <<line[1], line[3], line[5], line[6]>>

\* Lines 306-338, the loop over raw_results from line i on, with the theater
\* of the last heading (NoneVal before the first) and the keys seen so far:
\* the lines appended to formatted_results.
RECURSIVE FormatFrom(_, _, _, _, _)
FormatFrom(raw, i, locality, current_theater, seen_showtimes) ==
    IF i > Len(raw) THEN <<>>
    ELSE LET line == raw[i]
         IN  IF \/ line = ShortLine
                \/ OutsideLocality(locality, line[1], line[2])
                \/ ShowtimeKey(line) \in seen_showtimes
             THEN FormatFrom(raw, i + 1, locality, current_theater, seen_showtimes)
             ELSE (IF line[1] # current_theater
                   THEN (IF current_theater # NoneVal THEN <<BlankLine>> ELSE <<>>)
                           \o <<TheaterLine(line[1], line[2])>>
                   ELSE <<>>)
                     \o <<ShowLine(line[3], line[4], line[5], line[6])>>
                     \o FormatFrom(raw, i + 1, locality, line[1],
                                   seen_showtimes \cup {ShowtimeKey(line)})

\* Lines 285-344: header, rule, and the lines of the loop.
FormatShowtimes(raw, locality) ==
    <<HeaderLine(locality), RuleLine>> \o FormatFrom(raw, 1, locality, NoneVal, {})

\* The oracle has answered a showtimes query with some lines.
oracle_answers(raw, locality) ==
    /\ listing.pc = "idle"
    /\ listing' = [pc |-> "raw", raw |-> raw, locality |-> locality, out |-> <<>>]
    /\ UNCHANGED <<fileHdr, file, calls, turnVars, chatVars, fetchVars, tasks, filtering>>

\* Lines 285-346 of handle_showtimes on these lines.
format_showtimes ==
    /\ listing.pc = "raw"
    /\ listing' = [listing EXCEPT !.pc = "done",
                                  !.out = FormatShowtimes(listing.raw, listing.locality)]
    /\ UNCHANGED <<fileHdr, file, calls, turnVars, chatVars, fetchVars, tasks, filtering>>

\* The response is sent.
listing_done ==
    /\ listing.pc = "done"
    /\ listing' = NoListing
    /\ UNCHANGED <<fileHdr, file, calls, turnVars, chatVars, fetchVars, tasks, filtering>>

InitListing ==
    /\ Init
    /\ file = <<Row(KeyDuneHindi, MaxSeats), Row(KeyMoanaHindi, MaxSeats)>>

NextListing ==
    \/ \E raw \in RawResults : \E locality \in Localities : oracle_answers(raw, locality)
    \/ format_showtimes
    \/ listing_done

SpecListing == InitListing /\ [][NextListing]_vars

\* ------------------------------------------------------------ the two bots
\* What a bot step leaves alone.
BotFrame ==
    /\ UNCHANGED <<frontend, history, log, handed>>
    /\ UNCHANGED <<fileHdr, file, calls, turnVars, fetchVars, listing, filtering>>

\* An update reaches a handler.  The webhook server handles its requests as
\* they come (python_telegram_bot.py lines 43-51), so a second update can be
\* taken while the first awaits its answer; the polling application takes
\* its updates one at a time.
receive(t, update, kind, text) ==
    /\ frontend \in {"webhook", "polling"}
    /\ tasks[t].pc = "idle"
    /\ handled < MaxUpdates
    /\ frontend = "polling" => \A s \in Tasks : tasks[s].pc = "idle"
    /\ handled' = handled + 1
    /\ tasks' = [tasks EXCEPT ![t] =
                   [NoTask EXCEPT !.pc = "received", !.kind = kind,
                                  !.update = update, !.n = handled + 1,
                                  !.text = IF kind = "message" THEN text ELSE <<>>]]
    /\ UNCHANGED chat_histories
    /\ BotFrame

\* The task is over: what it replied and whether it ran the workflow.
Over(t, reply, runs) ==
    [tasks EXCEPT ![t] = [@ EXCEPT !.pc = "over", !.reply = reply, !.runs = runs]]

\* handle_message of python_telegram_bot.py up to the await of line 70:
\* the history is made if there is none and the user's entry is appended.
webhook_user_entry(t) ==
    /\ frontend = "webhook"
    /\ tasks[t].pc = "received"
    /\ tasks[t].kind = "message"
    /\ LET user_id == HistoryKey(frontend, tasks[t].update)
       IN  chat_histories' =
             SetHistory(user_id, Append(HistoryOf(user_id),
                                        BotEntry("User", tasks[t].n)))
    /\ tasks' = [tasks EXCEPT ![t].pc = "awaiting"]
    /\ UNCHANGED handled
    /\ BotFrame

\* Lines 70-82: chat_with_user returns and the bot's entry is appended and
\* the history trimmed, or it raises and the apology is sent.
webhook_bot_entry(t, raises) ==
    /\ frontend = "webhook"
    /\ tasks[t].pc = "awaiting"
    /\ LET user_id == HistoryKey(frontend, tasks[t].update)
       IN  IF raises
           THEN /\ chat_histories' = chat_histories
                /\ tasks' = Over(t, "sorry", 1)
           ELSE /\ chat_histories' =
                     SetHistory(user_id,
                                Trim(Append(HistoryOf(user_id),
                                            BotEntry("Bot", tasks[t].n)),
                                     MAX_HISTORY_webhook))
                /\ tasks' = Over(t, "response", 1)
    /\ UNCHANGED handled
    /\ BotFrame

\* start of python_telegram_bot.py, lines 84-88: the history is emptied, then
\* the welcome text is sent.
webhook_reset(t) ==
    /\ frontend = "webhook"
    /\ tasks[t].pc = "received"
    /\ tasks[t].kind = "start"
    /\ chat_histories' = SetHistory(HistoryKey(frontend, tasks[t].update), <<>>)
    /\ tasks' = Over(t, "welcome", 0)
    /\ UNCHANGED handled
    /\ BotFrame

\* handle_message of python-telegram-bot.py, lines 129-166: the history is
\* made if there is none; a generic text is answered with the welcome text
\* at once; for any other text chat_with_user runs the workflow and the two
\* entries are added and the history trimmed.  `raises` is chat_with_user
\* raising before its own try (line 86): the except of line 164 answers.
polling_message(t, raises) ==
    /\ frontend = "polling"
    /\ tasks[t].pc = "received"
    /\ tasks[t].kind = "message"
    /\ LET chat_id == HistoryKey(frontend, tasks[t].update)
       IN  IF IsGeneric(tasks[t].text)
           THEN /\ chat_histories' = SetHistory(chat_id, HistoryOf(chat_id))
                /\ tasks' = Over(t, "welcome", 0)
           ELSE IF raises
           THEN /\ chat_histories' = SetHistory(chat_id, HistoryOf(chat_id))
                /\ tasks' = Over(t, "welcome", 0)
           ELSE /\ chat_histories' =
                     SetHistory(chat_id,
                                Trim(HistoryOf(chat_id)
                                       \o <<BotEntry("User", tasks[t].n),
                                            BotEntry("Bot", tasks[t].n)>>,
                                     MAX_HISTORY_polling))
                /\ tasks' = Over(t, "response", 1)
    /\ UNCHANGED handled
    /\ BotFrame

\* start of python-telegram-bot.py, lines 168-171: the welcome text is sent
\* first; when sending raises, line 171 is not reached.
polling_reset(t, raises) ==
    /\ frontend = "polling"
    /\ tasks[t].pc = "received"
    /\ tasks[t].kind = "start"
    /\ IF raises
       THEN /\ chat_histories' = chat_histories
            /\ tasks' = Over(t, "none", 0)
       ELSE /\ chat_histories' =
                 SetHistory(HistoryKey(frontend, tasks[t].update), <<>>)
            /\ tasks' = Over(t, "welcome", 0)
    /\ UNCHANGED handled
    /\ BotFrame

\* The handler has returned.
handler_returns(t) ==
    /\ tasks[t].pc = "over"
    /\ tasks' = [tasks EXCEPT ![t] = NoTask]
    /\ UNCHANGED <<chat_histories, handled>>
    /\ BotFrame

NextBots ==
    \/ \E f \in {"webhook", "polling"} : main(f)
    \/ \E t \in Tasks :
          \/ \E update \in Updates : \E kind \in {"message", "start"} :
                \E text \in Texts : receive(t, update, kind, text)
          \/ webhook_user_entry(t)
          \/ \E raises \in BOOLEAN : webhook_bot_entry(t, raises)
          \/ webhook_reset(t)
          \/ \E raises \in BOOLEAN : polling_message(t, raises)
          \/ \E raises \in BOOLEAN : polling_reset(t, raises)
          \/ handler_returns(t)

SpecBots == InitChat /\ [][NextBots]_vars

\* --------------------------------------------------------- filter_showtimes
\* int() of a string of two digits.
DigitValue(c) ==
    CASE c = "0" -> 0 [] c = "1" -> 1 [] c = "2" -> 2 [] c = "3" -> 3
      [] c = "4" -> 4 [] c = "5" -> 5 [] c = "6" -> 6 [] c = "7" -> 7
      [] c = "8" -> 8 [] c = "9" -> 9

\* Line 8: int(time_str.split(':')[0]) for a time "HH:MM".
HourOf(time_str) == DigitValue(time_str[1]) * 10 + DigitValue(time_str[2])

get_time_periodLateEvening(time_str) ==
    LET hour == HourOf(time_str)
    IN  IF 5 <= hour /\ hour < 12 THEN "morning"
        ELSE IF 12 <= hour /\ hour < 17 THEN "afternoon"
        ELSE IF 17 <= hour /\ hour <= 21 THEN "evening"
        ELSE "night"

\* get_time_period, lines 6-16.
get_time_period(time_str) ==
    LET hour == HourOf(time_str)
    IN  IF 5 <= hour /\ hour < 12 THEN "morning"
        ELSE IF 12 <= hour /\ hour < 17 THEN "afternoon"
        ELSE IF 17 <= hour /\ hour < 21 THEN "evening"
        ELSE "night"

\* str.lower() of a word of a filter.
LowerFilterWord(w) ==
    CASE w = "Today"   -> "today"
      [] w = "Evening" -> "evening"
      [] OTHER         -> w

\* `part in text.lower()` for the words of the model: the part is a word of
\* the text, or the end of the word "tonight".
InLowered(part, text) ==
    \E i \in 1..Len(text) :
        \/ LowerFilterWord(text[i]) = part
        \/ part = "night" /\ LowerFilterWord(text[i]) = "tonight"

TimePeriods == {"morning", "afternoon", "evening", "night"}

\* Lines 23-30: the shows of today or of tomorrow, or all of them.
DateFiltered(shows, date_filter) ==
    LET IsToday(show)    == show.date = Today
        IsTomorrow(show) == show.date = Tomorrow
    IN  IF date_filter = <<>> THEN shows
        ELSE IF InLowered("today", date_filter) THEN SelectSeq(shows, IsToday)
        ELSE IF InLowered("tomorrow", date_filter) THEN SelectSeq(shows, IsTomorrow)
        ELSE shows

\* Lines 33-39: when the filter names a period, the shows whose period is
\* named in it.
TimeFiltered(shows, time_filter) ==
    LET InPeriod(show) == InLowered(get_time_period(show.time), time_filter)
    IN  IF time_filter = <<>> THEN shows
        ELSE IF \E period \in TimePeriods : InLowered(period, time_filter)
        THEN SelectSeq(shows, InPeriod)
        ELSE shows

\* filter_showtimes, lines 18-41.
filter_showtimes(shows, date_filter, time_filter) ==
    TimeFiltered(DateFiltered(shows, date_filter), time_filter)

\* A caller has a list of shows and the user's filters.
filter_call(shows, date_filter, time_filter) ==
    /\ filtering.pc = "idle"
    /\ filtering' = [pc |-> "called", showtimes |-> shows,
                     date_filter |-> date_filter, time_filter |-> time_filter,
                     out |-> <<>>]
    /\ UNCHANGED <<fileHdr, file, calls, turnVars, chatVars, fetchVars, listing, tasks>>

\* The call returns filtered_shows.
filter_return ==
    /\ filtering.pc = "called"
    /\ filtering' = [filtering EXCEPT
                       !.pc = "returned",
                       !.out = filter_showtimes(filtering.showtimes,
                                                filtering.date_filter,
                                                filtering.time_filter)]
    /\ UNCHANGED <<fileHdr, file, calls, turnVars, chatVars, fetchVars, listing, tasks>>

\* The caller has used the list.
filter_done ==
    /\ filtering.pc = "returned"
    /\ filtering' = NoFiltering
    /\ UNCHANGED <<fileHdr, file, calls, turnVars, chatVars, fetchVars, listing, tasks>>

NextFilter ==
    \/ \E shows \in ShowLists : \E date_filter \in DateFilters :
          \E time_filter \in TimeFilters : filter_call(shows, date_filter, time_filter)
    \/ filter_return
    \/ filter_done

SpecFilter == InitChat /\ [][NextFilter]_vars

\* ---------------------------------------------------------------- properties
\* The step in which caller p enters book_tickets and reads the file.
CallStep(p) == pc[p] = "idle" /\ pc'[p] # "idle"

\* The file is a table as the seeding left it: header line, rows, no NUL.
Intact == fileHdr = "ok" /\ ~HasNul

\* Row `row` is the showtime (movie, theater, date, time) that request `req`
\* names, whatever its language.
SameShowtime(row, req) ==
    /\ Len(req.query_result) >= 2
    /\ row.movie_name = req.movie_name
    /\ row.theater_location = req.theater_name
    /\ row.date = req.query_result[1]
    /\ row.time = req.query_result[2]

\* Row i is the row a call with request `req` matches in the file.
MatchedRow(i, req) ==
    /\ i \in 1..Len(file)
    /\ WellFormed(req.query_result)
    /\ Matches(file[i], req.query_result, req.movie_name, req.theater_name)
    /\ \A j \in 1..(i - 1) :
          ~Matches(file[j], req.query_result, req.movie_name, req.theater_name)

StoreUnchanged == file' = file /\ fileHdr' = fileHdr

\* C1: every showtime record of the store has available_seats >= 0 in every
\* reachable state, whatever the interleaving of the booking attempts.
C1_SeatsNeverNegative ==
    \A i \in 1..Len(file) : file[i].available_seats >= 0

\* A booking has brought a seeded row with seats down to zero.
C1_Witness ==
    \E i \in 1..Len(file) :
        /\ sold[i] > 0
        /\ initial[i].available_seats > 0
        /\ file[i] = [initial[i] EXCEPT !.available_seats = 0]

\* C2: for every showtime, the tickets of all the calls that returned success
\* never exceed the seats the showtime started with.
C2_SoldWithinSeats ==
    \A i \in 1..Len(initial) : sold[i] <= initial[i].available_seats

\* C3: two calls for 2 tickets each on a showtime that starts with 2 seats
\* end, when neither hits an I/O error, with exactly one success, one
\* insufficient-seats failure and 0 seats stored.
C3_OneOfTwoSucceeds ==
    ( /\ started = 2
      /\ initial[1].available_seats = 2
      /\ \A p \in Procs :
            /\ pc[p] = "done"
            /\ args[p] = Request(QueryShow, 2, "Dune")
            /\ result[p] # "booking_error" )
    => /\ \E p \in Procs : \A q \in Procs \ {p} :
              result[p] = "success" /\ result[q] = "insufficient"
       /\ Intact
       /\ Len(file) = Len(initial)
       /\ file[1].available_seats = 0

\* C4: a call that asks for more tickets than the showtime it matches has
\* left returns the insufficient-seats failure reporting that count, and
\* leaves the whole store as it was.
C4_InsufficientSeats ==
    [][ \A p \in Procs : \A i \in 1..Len(file) :
          ( /\ CallStep(p)
            /\ Intact
            /\ MatchedRow(i, args'[p])
            /\ args'[p].num_tickets > file[i].available_seats )
          => ( /\ pc'[p] = "done"
               /\ result'[p] = "insufficient"
               /\ avail'[p] = file[i].available_seats
               /\ StoreUnchanged )
      ]_vars

\* A call for 2 tickets has been refused on a showtime with 1 seat left.
C4_Witness ==
    \E p \in Procs :
        /\ pc[p] = "done"
        /\ result[p] = "insufficient"
        /\ args[p].num_tickets = 2
        /\ avail[p] = 1
        /\ Intact
        /\ \E i \in 1..Len(file) : file[i].available_seats = 1

\* C5: a call whose (movie, theater, date, time) is the showtime of no stored
\* record returns the showtime-not-found failure and never writes.
C5_NotFound ==
    [][ \A p \in Procs :
          ( /\ CallStep(p)
            /\ ~HasNul
            /\ WellFormed(args'[p].query_result)
            /\ \A i \in 1..Len(file) : ~SameShowtime(file[i], args'[p]) )
          => ( /\ pc'[p] = "done"
               /\ result'[p] = "not_found"
               /\ StoreUnchanged )
      ]_vars

\* A call naming a time no row has was answered not-found, the store intact.
C5_Witness ==
    \E p \in Procs :
        /\ pc[p] = "done"
        /\ result[p] = "not_found"
        /\ args[p].query_result = QueryOtherTime
        /\ Intact
        /\ file = initial

\* The table caller p read, before line 98 changed matching_show in it.
TableRead(p) == [showtimes[p] EXCEPT ![matched[p]].available_seats = avail[p]]

\* The last write of a call that returns success.
SuccessStep(p) == pc[p] = "write" /\ result'[p] = "success"

\* The scenario of C6: on a showtime seeded with 2 seats, a call for 2 tickets
\* succeeded and a call for 1 ticket on the same key, neither overlapping the
\* other nor failing on I/O, is answered too.
C6_ScenarioDone(p, q) ==
    /\ p # q
    /\ started = 2
    /\ initial[1].available_seats = 2
    /\ pc[p] = "done" /\ pc[q] = "done"
    /\ ~overlap[p] /\ ~overlap[q]
    /\ args[p] = Request(QueryShow, 2, "Dune")
    /\ result[p] = "success"
    /\ args[q] = Request(QueryShow, 1, "Dune")
    /\ result[q] # "booking_error"

C6_Scenario ==
    \A p, q \in Procs :
        C6_ScenarioDone(p, q)
        => /\ result[q] = "insufficient"
           /\ avail[q] = 0
           /\ Intact
           /\ file[1].available_seats = 0

\* C6: a successful call that no other call overlaps leaves the file holding
\* the table it read with available - requested for the matched record; on a
\* showtime with 2 seats, booking 2 succeeds and leaves 0, and the following
\* request for 1 ticket fails with insufficient seats reporting 0.
C6_ReadAfterWrite ==
    [][ /\ \A p \in Procs :
              (SuccessStep(p) /\ ~overlap[p])
              => /\ fileHdr' = "ok"
                 /\ Len(file') = Len(showtimes[p])
                 /\ \A i \in 1..Len(file') :
                       file'[i] = IF i = matched[p]
                                  THEN [TableRead(p)[i] EXCEPT !.available_seats =
                                          avail[p] - args[p].num_tickets]
                                  ELSE TableRead(p)[i]
        /\ C6_Scenario'
      ]_vars

\* The scenario has run to its end.
C6_Witness ==
    \E p, q \in Procs :
        /\ C6_ScenarioDone(p, q)
        /\ result[q] = "insufficient"
        /\ avail[q] = 0
        /\ file[1].available_seats = 0

\* C7: when the write of a call fails, at the open or after it, the call
\* returns a failure and the store holds what it held before the call.
C7_FailedWriteKeepsStore ==
    [][ \A p \in Procs :
          (Active(p) /\ ~overlap[p] /\ result'[p] = "booking_error")
          => /\ pc'[p] = "done"
             /\ fileHdr' = "ok"
             /\ file' = TableRead(p)
      ]_vars

\* C8: a read that overlaps the write of another call gets the whole table of
\* before that write or the whole table of after it.
C8_ReadsSeeWholeTable ==
    [][ \A p, q \in Procs :
          (CallStep(p) /\ q # p /\ pc[q] = "write" /\ ~overlap[q])
          => /\ fileHdr = "ok"
             /\ file \in {TableRead(q), showtimes[q]}
      ]_vars

\* C9: a call whose key matches more than one stored record fails as
\* ambiguous, books none of them and changes nothing.
C9_AmbiguousRejected ==
    [][ \A p \in Procs :
          ( /\ CallStep(p)
            /\ Intact
            /\ WellFormed(args'[p].query_result)
            /\ Cardinality(MatchSet(file, args'[p].query_result,
                                    args'[p].movie_name, args'[p].theater_name)) > 1 )
          => ( /\ pc'[p] = "done"
               /\ result'[p] = "ambiguous"
               /\ StoreUnchanged )
      ]_vars

\* The query names a date and a time and no language.
LanguageUnspecified(query_result) ==
    /\ Len(Parts(query_result)) = 1
    /\ Len(Parts(query_result)[1]) = 2

\* C10: a call that leaves the language unspecified matches a stored
\* showtime of its movie, theater, date and time in any language: it fails
\* neither as not found nor as invalid input.
C10_LanguageWildcard ==
    [][ \A p \in Procs :
          ( /\ CallStep(p)
            /\ Intact
            /\ LanguageUnspecified(args'[p].query_result)
            /\ \E i \in 1..Len(file) : SameShowtime(file[i], args'[p]) )
          => result'[p] \notin {"not_found", "invalid_format"}
      ]_vars

\* The row is the showtime the call names, up to the letter case of the
\* movie title, the theater name and the language.
SameUpToCase(row, req) ==
    /\ row.date = Parts(req.query_result)[1][1]
    /\ row.time = Parts(req.query_result)[1][2]
    /\ Len(Parts(req.query_result)[2]) = 1
    /\ Lower(row.language) = Lower(Parts(req.query_result)[2][1])
    /\ Lower(row.movie_name) = Lower(req.movie_name)
    /\ Lower(row.theater_location) = Lower(req.theater_name)

\* The same with the movie title and the theater name compared as they are.
SameUpToLanguageCase(row, req) ==
    /\ SameUpToCase(row, req)
    /\ row.movie_name = req.movie_name
    /\ row.theater_location = req.theater_name

\* C11: the lookup of a booking call ignores the letter case of every text
\* field of the key: a call whose key differs from a stored record only in
\* the case of movie_name, theater_location or language finds that record.
C11_CaseInsensitiveKey ==
    [][ \A p \in Procs :
          ( /\ CallStep(p)
            /\ Intact
            /\ WellFormed(args'[p].query_result)
            /\ \E i \in 1..Len(file) : SameUpToCase(file[i], args'[p]) )
          => result'[p] # "not_found"
      ]_vars

\* C11, as the code has it: the lookup ignores the letter case of the
\* language only.  A call finds a record exactly when one has its date, time,
\* movie_name and theater_location as given and its language up to case.
C11_LanguageCaseOnly ==
    [][ \A p \in Procs :
          ( /\ CallStep(p)
            /\ Intact
            /\ WellFormed(args'[p].query_result) )
          => ( result'[p] # "not_found"
               <=> \E i \in 1..Len(file) : SameUpToLanguageCase(file[i], args'[p]) )
      ]_vars

\* A call naming the language in lower case has matched a row that stores it
\* capitalised, and a call naming the movie title in lower case has found none.
C11_Witness ==
    \E p, q \in Procs :
        /\ pc[p] = "open"
        /\ args[p].query_result = QueryShow
        /\ showtimes[p][matched[p]].language = "Hindi"
        /\ pc[q] = "done"
        /\ args[q] = RequestLowerMovie
        /\ result[q] = "not_found"

\* C12: the start step picks the next step from the kind of the extracted
\* intent alone: movie_review, showtimes, cinema_location and book_tickets
\* start their handler, every other kind is answered by the start step from
\* the search oracle; a run dispatches once and runs at most that handler.
C12_RouteByIntent ==
    [][ /\ (event.type = "StartEvent" /\ turn'.extracted = "ok")
           => /\ turn'.intent.intent = "movie_review"
                    => event'.type = "MovieReviewEvent"
              /\ turn'.intent.intent = "showtimes"
                    => event'.type = "ShowtimesEvent"
              /\ turn'.intent.intent = "cinema_location"
                    => event'.type = "CinemaLocationEvent"
              /\ turn'.intent.intent = "book_tickets"
                    => event'.type = "BookTicketsEvent"
              /\ turn'.intent.intent \in {"general", "greeting"}
                    => event'.type = "StopEvent" /\ turn'.oracle = 1
              /\ turn'.dispatches = 1
        /\ event.type # "StartEvent" => turn'.dispatches <= turn.dispatches
        /\ event.type \in HandlerEvents
           => /\ turn.handlers = 0
              /\ turn'.handlers = 1
              /\ event.type = HandlerEvent(turn.intent.intent)
        /\ event.type \notin HandlerEvents => turn'.handlers <= turn.handlers
      ]_vars

\* A showtimes intent has been dispatched to the showtimes handler.
C12_Witness ==
    /\ event.type = "ShowtimesEvent"
    /\ turn.intent.intent = "showtimes"
    /\ turn.dispatches = 1

\* C13: when the intent extractor fails the start step ends the run with
\* the apology: the extractor has been called once, no handler runs, and
\* neither the search oracle nor the store is touched before the run is over.
C13_ExtractorFailureEndsRun ==
    [][ /\ (event.type = "StartEvent" /\ turn'.extracted = "failed")
           => /\ event' = StopEvent(Response("apology", <<>>, FALSE))
              /\ turn'.extractor = 1
              /\ StoreUnchanged
        /\ turn.extracted = "failed"
           => /\ event' = NoEvent
              /\ turn.handlers = 0 /\ turn.dispatches = 0 /\ turn.oracle = 0
              /\ turn.reads = 0 /\ turn.writes = 0
              /\ StoreUnchanged
      ]_vars

\* The extractor has failed and the run has stopped with the apology.
C13_Witness ==
    /\ turn.extracted = "failed"
    /\ event.type = "StopEvent"
    /\ event.input.kind = "apology"

\* C14: whatever the search oracle and the movie-info service do, a handler
\* step ends the run with a StopEvent: it starts no other handler and no
\* exception leaves it.
C14_HandlersEndInStopEvent ==
    [][ event.type \in HandlerEvents => event'.type = "StopEvent" ]_vars

\* The names a missing-information message lists.
Listed(response) == { response.detail[i] : i \in 1..Len(response.detail) }

\* C15: a book_tickets intent without movie_name or cinema_name ends the run
\* with the message that lists exactly the missing fields; the handler
\* queries neither the search oracle nor the store.
C15_MissingFields ==
    [][ ( /\ event.type = "BookTicketsEvent"
          /\ Falsy(event.input.movie_name) \/ Falsy(event.input.cinema_name) )
        => /\ event'.type = "StopEvent"
           /\ event'.input.kind = "missing"
           /\ "movie name" \in Listed(event'.input)
                 <=> Falsy(event.input.movie_name)
           /\ "cinema location" \in Listed(event'.input)
                 <=> Falsy(event.input.cinema_name)
           /\ Listed(event'.input) \subseteq {"movie name", "cinema location"}
           /\ turn'.oracle = 0 /\ turn'.reads = 0 /\ turn'.writes = 0
           /\ turn'.booked = <<>>
           /\ StoreUnchanged
      ]_vars

\* A booking intent with a movie and no cinema has been answered with the
\* cinema as the one missing field.
C15_Witness ==
    /\ event.type = "StopEvent"
    /\ turn.route = "booking"
    /\ turn.intent.movie_name = "Dune"
    /\ event.input.kind = "missing"
    /\ event.input.detail = <<"cinema location">>

\* C16: a book_tickets intent with no showtime for which the lookup returns
\* two or more candidate showtimes ends the run with the message that lists
\* the candidates, and the store is left as it was.
C16_AmbiguousShowtimeListed ==
    [][ ( /\ event.type = "BookTicketsEvent"
          /\ event.input.showtime_str = NoShowtime
          /\ Len(Candidates(turn'.results)) >= 2 )
        => /\ event'.type = "StopEvent"
           /\ event'.input.kind = "disambiguation"
           /\ Candidates(event'.input.detail) = Candidates(turn'.results)
           /\ StoreUnchanged
      ]_vars

\* The showtime of a booking intent, as <<date, time>>.
NamedShowtime(showtime_str) ==
    IF Len(showtime_str) = 3 THEN <<showtime_str[1], showtime_str[3]>>
    ELSE showtime_str

\* The rows that are the showtime a booking intent names.
Identified(parsed_query) ==
    { i \in 1..Len(file) :
        /\ file[i].movie_name = parsed_query.movie_name
        /\ file[i].theater_location = parsed_query.cinema_name
        /\ <<file[i].date, file[i].time>> = NamedShowtime(parsed_query.showtime_str) }

\* C17: a book_tickets intent whose movie, cinema and showtime name exactly
\* one stored showtime with enough seats, the oracle returning that showtime
\* and the file system working, ends the run with the success message and
\* that showtime's seats lowered by the tickets asked for.
C17_BookingThroughHandler ==
    [][ \A i \in 1..Len(file) :
          ( /\ event.type = "BookTicketsEvent"
            /\ ShowtimeSplits(event.input.showtime_str)
            /\ Identified(event.input) = {i}
            /\ event.input.num_tickets # Null
            /\ file[i].available_seats >= event.input.num_tickets[1]
            /\ turn'.booked # <<>>
            /\ turn'.booked[1].query_result = QueryShow
            /\ turn'.booked[1].result # "booking_error" )
          => /\ event'.type = "StopEvent"
             /\ event'.input.kind = "booked"
             /\ file' = [file EXCEPT ![i].available_seats =
                            @ - event.input.num_tickets[1]]
      ]_vars

\* C18: a booking intent that carries no num_tickets has book_tickets called
\* for 1 ticket.
C18_DefaultOneTicket ==
    [][ ( /\ event.type = "BookTicketsEvent"
          /\ event.input.num_tickets = Null
          /\ turn'.booked # <<>> )
        => turn'.booked[1].num_tickets = Num(1)
      ]_vars

\* C19: the response of a booking run carries a confirmation number exactly
\* when book_tickets was called in the run and reported success.
C19_CodeIffSuccess ==
    (event.type = "StopEvent" /\ turn.route = "booking")
    => ( event.input.code
         <=> (turn.booked # <<>> /\ turn.booked[1].result = "success") )

\* book_tickets was called, failed to find the showtime, and the response
\* carries no confirmation number.
C19_Witness ==
    /\ event.type = "StopEvent"
    /\ turn.booked # <<>>
    /\ turn.booked[1].result = "not_found"
    /\ event.input.kind = "booking_failed"
    /\ ~event.input.code

\* The history a front end keeps for chat c.
Kept(c) == IF c = "terminal" THEN history ELSE HistoryOf(c)

\* The cap of the front end that runs.
Cap ==
    CASE frontend = "terminal" -> MAX_HISTORY_terminal
      [] frontend = "webhook"  -> MAX_HISTORY_webhook
      [] OTHER                 -> MAX_HISTORY_polling

\* C20: after every message a front end has handled, the history it keeps
\* for a chat has at most MAX_HISTORY entries, and they are the last entries
\* appended for that chat, in the order they were appended.
C20_HistoryWindow ==
    frontend \in FrontEnds
    => \A c \in (IF frontend = "terminal" THEN {"terminal"} ELSE Users) :
          /\ Len(Kept(c)) <= Cap
          /\ Len(Kept(c)) <= Len(log[c])
          /\ Len(log[c]) <= Cap => Kept(c) = log[c]
          /\ Len(log[c]) > Cap
                => Kept(c) = SubSeq(log[c], Len(log[c]) - Cap + 1, Len(log[c]))

\* The cap of a front end.
CapOf(f) ==
    CASE f = "webhook" -> MAX_HISTORY_webhook
      [] f = "polling" -> MAX_HISTORY_polling
      [] OTHER         -> MAX_HISTORY_terminal

\* C21: the history lines a front end hands to chat_with_user, and through
\* it to the intent extractor, never number more than MAX_HISTORY, whatever
\* the messages handled before and however they ended.
C21_HandedWithinCap == Len(handed) <= CapOf(frontend)

\* The retriever setting a lookup of the step about to run is made with when
\* nothing but the intent decides it.
TopKOf(ev) ==
    IF ev.type = "ShowtimesEvent" THEN TopKShowtimes
    ELSE IF ev.type = "CinemaLocationEvent" /\ ~Falsy(ev.input.locality)
    THEN TopKCinema
    ELSE TopKConstructed

\* C22: what a handler answers depends on the intent, the store and the
\* oracle's answers only: no earlier run leaves state behind that changes a
\* later lookup.  The oracle is asked with the retriever setting that the
\* intent of the run decides, whichever handlers ran before.
C22_LookupIndependentOfEarlierRuns ==
    [][ turn'.oracle > turn.oracle => turn'.top_k = TopKOf(event) ]_vars

\* The steps of a run that are not the booking handler: the start step, with
\* its general answer and its extractor failure, and the review, showtimes
\* and cinema-location handlers.
NonBookingSteps ==
    {"StartEvent", "MovieReviewEvent", "ShowtimesEvent", "CinemaLocationEvent"}

\* C23: seat counts are changed by the booking transaction only: the start
\* step (general answer and extractor failure included) and the review,
\* showtimes and cinema-location handlers leave every record of the store as
\* it was and make no write to it.
C23_OnlyBookingWrites ==
    [][ event.type \in NonBookingSteps
           => StoreUnchanged /\ turn'.writes = turn.writes ]_vars

\* A cinema-location run has asked the oracle and ended over the seeded store.
C23_Witness ==
    /\ turn.route = "cinema"
    /\ turn.oracle = 1
    /\ event.type = "StopEvent"
    /\ file = initial

Absent(movie_name) ==
    \A i \in 1..Len(movies_table) : ~ILike(movies_table[i].film_name, movie_name)

\* C25: a showtime lookup with no movie name, or for a movie the store
\* answers it does not hold, returns the empty sequence and raises nothing;
\* the Showtimes table is not asked and neither table is changed.
C25_AbsentMovieGivesEmpty ==
    [][ ( /\ fetch.pc = "idle"
          /\ fetch'.pc # "idle"
          /\ \/ fetch'.movie_name = NoName
             \/ Absent(fetch'.movie_name) /\ fetch'.answered >= 1 )
        => /\ fetch'.pc = "returned"
           /\ fetch'.data = <<>>
           /\ fetch'.answered <= 1
           /\ showtimes_table' = showtimes_table
           /\ movies_table' = movies_table ]_vars

\* A lookup for a film the store does not hold has returned, over a store
\* that holds showtimes of other films.
C25_Witness ==
    /\ fetch.pc = "returned"
    /\ fetch.movie_name # NoName
    /\ Absent(fetch.movie_name)
    /\ movies_table # <<>>
    /\ showtimes_table # <<>>
    /\ fetch.data = <<>>

\* Position of a date or a time of the model in the order of its kind.
Rank(s) ==
    CASE s = "2024-12-15" -> 1
      [] s = "2024-12-16" -> 2
      [] s = "17:30"      -> 1
      [] s = "22:15"      -> 2

\* Showtime line a is not later than showtime line b: date, then time.
NotLater(a, b) ==
    \/ Rank(a[4]) < Rank(b[4])
    \/ Rank(a[4]) = Rank(b[4]) /\ Rank(a[5]) <= Rank(b[5])

\* No theater has two headings in the text.
GroupedByTheater(out) ==
    \A i, j \in 1..Len(out) :
        (out[i][1] = "theater" /\ out[j][1] = "theater" /\ out[i][2] = out[j][2])
            => i = j

\* The showtime lines under one heading are in the order of date, then time.
SortedByDateTime(out) ==
    \A i, j \in 1..Len(out) :
        ( /\ i < j
          /\ \A k \in i..j : out[k][1] = "show" )
        => NotLater(out[i], out[j])

\* C26: for every order in which the oracle's lines arrive, the showtimes
\* response has all showtimes of a theater under one heading for that theater
\* and lists them in the order of date, then time.
C26_GroupedAndSorted ==
    listing.pc = "done"
        => GroupedByTheater(listing.out) /\ SortedByDateTime(listing.out)

\* C27: a booking is never retried.  Every step that changes the file is a
\* step of the one rewrite of a call whose own check available >= requested
\* has passed; a call never opens the file a second time; and a call that
\* returns not found, insufficient seats or invalid input returns straight
\* from its read, without having written anything.
C27_OneWriteAfterOwnCheck ==
    [][ /\ ~StoreUnchanged
           => \E p \in Procs :
                /\ pc[p] \in {"open", "write"}
                /\ pc'[p] \in {"write", "done"}
                /\ matched[p] > 0
                /\ avail[p] >= args[p].num_tickets
        /\ \A p \in Procs :
             /\ pc[p] = "write" => pc'[p] \in {"write", "done"}
             /\ (pc[p] # "open" /\ pc'[p] = "open") => CallStep(p)
             /\ result'[p] \in {"not_found", "insufficient", "invalid_format"}
                  => (result[p] = result'[p]) \/ (CallStep(p) /\ StoreUnchanged)
      ]_vars

\* One call has written and returned success while another has been refused
\* for lack of seats.
C27_Witness ==
    \E p, q \in Procs :
        /\ result[p] = "success"
        /\ result[q] = "insufficient"

\* C28: two concurrent bookings on two different showtimes that both succeed
\* do not interfere: whatever the interleaving, once both have returned the
\* store holds each showtime's seat count less the tickets booked on it.
C28_BothDecrementsKept ==
    \A p, q \in Procs :
        ( /\ started = 2
          /\ initial[1].movie_name = "Dune" /\ initial[2].movie_name = "Moana"
          /\ pc[p] = "done" /\ pc[q] = "done"
          /\ result[p] = "success" /\ result[q] = "success"
          /\ args[p].movie_name = "Dune" /\ args[q].movie_name = "Moana" )
        => /\ Intact
           /\ Len(file) = Len(initial)
           /\ file[1].available_seats =
                 initial[1].available_seats - args[p].num_tickets
           /\ file[2].available_seats =
                 initial[2].available_seats - args[q].num_tickets

\* C29: whatever ticket count a call is given, zero and negative ones
\* included, no booking attempt raises a stored seat count: the table a
\* successful call leaves has, in every record, at most the seats the call
\* read.
C29_SeatsNeverRaised ==
    [][ \A p \in Procs :
          SuccessStep(p)
          => \A i \in DOMAIN file' \cap DOMAIN TableRead(p) :
                file'[i].available_seats <= TableRead(p)[i].available_seats
      ]_vars

\* A record with its seat count left out of the comparison.
OtherFields(row) == [row EXCEPT !.available_seats = 0]

\* Every call made so far has returned success and is still at its return.
OnlySuccesses ==
    /\ started >= 1
    /\ Cardinality({p \in Procs : pc[p] = "done"}) = started
    /\ \A p \in Procs : pc[p] \in {"idle", "done"}
    /\ \A p \in Procs : pc[p] = "done" => result[p] = "success"

\* C30: successful bookings change nothing but the available_seats of the
\* records they matched: after them the store has the records it was seeded
\* with, in the same order, every other field as seeded, and the seat count
\* of every record no call booked as seeded; no record is gone.
C30_OnlyMatchedSeatsChange ==
    OnlySuccesses
    => /\ fileHdr = "ok"
       /\ Len(file) = Len(initial)
       /\ \A i \in 1..Len(file) :
             /\ OtherFields(file[i]) = OtherFields(initial[i])
             /\ sold[i] = 0 => file[i] = initial[i]

\* The tokens are of the form '<date> <time> - <language> ...'.
DateTimeLanguageForm(q) ==
    /\ Len(q) >= 4
    /\ q[1] # "-" /\ q[2] # "-" /\ q[3] = "-"

\* What a call can return: success, or a failure with its message.
Returned ==
    {"success", "insufficient", "not_found", "invalid_format", "booking_error"}

\* C31: on a file it can read, a call whose query result is not of the form
\* '<date> <time> - <language> ...' returns the invalid-format failure, and
\* only such a call does, without writing the store; and every call ends by
\* returning a result: an error in the write is returned as the booking
\* error, none leaves the call.
C31_InvalidFormatReturned ==
    [][ \A p \in Procs :
          /\ (CallStep(p) /\ ~HasNul /\ ~DateTimeLanguageForm(args'[p].query_result))
                => /\ pc'[p] = "done"
                   /\ result'[p] = "invalid_format"
                   /\ StoreUnchanged
          /\ (CallStep(p) /\ result'[p] = "invalid_format")
                => ~DateTimeLanguageForm(args'[p].query_result) /\ StoreUnchanged
          /\ (pc[p] # "done" /\ pc'[p] = "done") => result'[p] \in Returned
          /\ (Active(p) /\ pc'[p] = "done")
                => result'[p] \in {"success", "booking_error"}
      ]_vars

\* A call with a query result that has no time was answered invalid format
\* over the seeded store.
C31_Witness ==
    \E p \in Procs :
        /\ pc[p] = "done"
        /\ result[p] = "invalid_format"
        /\ args[p].query_result = QueryNoTime
        /\ Intact
        /\ file = initial

\* The history a bot keeps for the updates of a chat sent by a user.
HistoryFor(update) == HistoryOf(HistoryKey(frontend, update))

\* Task t takes a step of its handler.
HandlerStep(t) == tasks[t].pc \in {"received", "awaiting"} /\ tasks'[t] # tasks[t]

\* C32: histories are kept apart per chat.  A handler step for an update of
\* chat A leaves the history the bot keeps for every update of another chat
\* as it was, and a /start that is over leaves the history of its own
\* update empty.
C32_HistoriesIsolated ==
    [][ \A t \in Tasks :
          HandlerStep(t)
          => /\ \A other \in Updates :
                  other.chat # tasks[t].update.chat
                  => HistoryOf(HistoryKey(frontend, other))' = HistoryFor(other)
             /\ (tasks[t].kind = "start" /\ tasks'[t].pc = "over")
                  => HistoryOf(HistoryKey(frontend, tasks[t].update))' = <<>>
      ]_vars

\* Every "User" entry of the history is followed at once by the "Bot" entry
\* of the same update, and every "Bot" entry follows its "User" entry.
Alternates(h) ==
    \A i \in 1..Len(h) :
        /\ h[i].role = "User"
             => /\ i < Len(h)
                /\ h[i + 1] = BotEntry("Bot", h[i].n)
        /\ h[i].role = "Bot"
             => /\ i > 1
                /\ h[i - 1] = BotEntry("User", h[i].n)

\* C33: whenever no handler of a Telegram bot is in progress, the history it
\* keeps under each key is a sequence of turns, each a "User" entry followed
\* at once by the one "Bot" entry that answers it: after turns that ended in
\* an error and after two messages of one chat handled at the same time.
C33_TurnsAlternate ==
    ( /\ frontend \in {"webhook", "polling"}
      /\ \A t \in Tasks : tasks[t].pc \in {"idle", "over"} )
    => \A k \in DOMAIN chat_histories : Alternates(chat_histories[k])

\* The text is a greeting, in any case of its letters, or has fewer than two
\* words.
GreetingOrOneWord(text) ==
    \/ text \in {<<"Hello">>, <<"hello">>, <<"hi">>, <<"hey">>, <<"help">>, <<"start">>}
    \/ Len(text) <= 1

\* C34: the polling bot answers a greeting, and any message of fewer than two
\* words, with the welcome text without running the workflow; the history of
\* the chat, the histories of the other chats and the record store are as
\* they were.
C34_GreetingLeavesHistory ==
    [][ \A t \in Tasks :
          ( /\ frontend = "polling"
            /\ HandlerStep(t)
            /\ tasks[t].kind = "message"
            /\ GreetingOrOneWord(tasks[t].text) )
          => /\ tasks'[t].pc = "over"
             /\ tasks'[t].reply = "welcome"
             /\ tasks'[t].runs = 0
             /\ \A update \in Updates :
                   HistoryOf(HistoryKey(frontend, update))' = HistoryFor(update)
             /\ StoreUnchanged
             /\ event' = event
      ]_vars

\* The polling bot has answered a one-word message that is no greeting with
\* the welcome text, in a chat that has a history.
C34_Witness ==
    \E t \in Tasks :
        /\ frontend = "polling"
        /\ tasks[t].pc = "over"
        /\ tasks[t].text = <<"Dune">>
        /\ tasks[t].reply = "welcome"
        /\ HistoryFor(tasks[t].update) # <<>>

\* The theater of the heading above line i of the text.
RECURSIVE HeadingAbove(_, _)
HeadingAbove(out, i) ==
    IF i = 0 THEN <<"theater", NoneVal, NoneVal>>
    ELSE IF out[i][1] = "theater" THEN out[i]
    ELSE HeadingAbove(out, i - 1)

\* The showtime of line i of the text: theater, movie, date, time.
Listing(out, i) == <<HeadingAbove(out, i)[2], out[i][2], out[i][4], out[i][5]>>

ShowLines(out) == { i \in 1..Len(out) : out[i][1] = "show" }

\* C35: in the showtimes response no (theater, movie, date, time) is listed
\* twice, and when a locality is given every showtime listed is under a
\* theater whose name or address is that locality, case ignored.
C35_NoDuplicateAndInLocality ==
    listing.pc = "done"
    => LET out == listing.out
       IN  /\ \A i, j \in ShowLines(out) :
                 Listing(out, i) = Listing(out, j) => i = j
           /\ listing.locality # NoneVal
                => \A i \in ShowLines(out) :
                      \/ Lower(HeadingAbove(out, i)[2]) = Lower(listing.locality)
                      \/ Lower(HeadingAbove(out, i)[3]) = Lower(listing.locality)

\* A response for a locality has been made of lines that held the same
\* showtime twice and a showtime of a theater elsewhere.
C35_Witness ==
    /\ listing.pc = "done"
    /\ listing.locality # NoneVal
    /\ ShowLines(listing.out) # {}
    /\ \E i, j \in 1..Len(listing.raw) :
          /\ i # j
          /\ listing.raw[i] = listing.raw[j]
          /\ listing.raw[i] # ShortLine
          /\ listing.raw[i][1] = "PVR"
    /\ \E i \in 1..Len(listing.raw) :
          listing.raw[i] # ShortLine /\ listing.raw[i][1] = "INOX"

\* The period of an hour of the day: morning [5,12), afternoon [12,17),
\* evening [17,21), night for every other hour.
PeriodOfHour(hour) ==
    IF hour \in 5..11 THEN "morning"
    ELSE IF hour \in 12..16 THEN "afternoon"
    ELSE IF hour \in 17..20 THEN "evening"
    ELSE "night"

\* The two digits of an hour.
DigitOf(n) ==
    CASE n = 0 -> "0" [] n = 1 -> "1" [] n = 2 -> "2" [] n = 3 -> "3"
      [] n = 4 -> "4" [] n = 5 -> "5" [] n = 6 -> "6" [] n = 7 -> "7"
      [] n = 8 -> "8" [] n = 9 -> "9"

TimeOfHour(hour) == TimeStr(DigitOf(hour \div 10), DigitOf(hour % 10))

\* s is t with some elements left out, the order kept.
RECURSIVE IsSubsequence(_, _)
IsSubsequence(s, t) ==
    IF s = <<>> THEN TRUE
    ELSE IF t = <<>> THEN FALSE
    ELSE IF Head(s) = Head(t) THEN IsSubsequence(Tail(s), Tail(t))
    ELSE IsSubsequence(s, Tail(t))

\* The shows of a list whose hour is in the period, in the order of the list.
RECURSIVE ShowsInPeriod(_, _)
ShowsInPeriod(shows, period) ==
    IF shows = <<>> THEN <<>>
    ELSE (IF PeriodOfHour(HourOf(Head(shows).time)) = period
          THEN <<Head(shows)>> ELSE <<>>) \o ShowsInPeriod(Tail(shows), period)

\* C36: filter_showtimes returns a subsequence of its input in the input's
\* order; with no date filter and no time filter it returns the input; with
\* a time filter that names the evening, and no date filter, it returns just
\* the shows whose hour is in the evening; and get_time_period gives every
\* hour from 0 to 23 its period: morning [5,12), afternoon [12,17), evening
\* [17,21), night otherwise.
C36_FilterShowtimes ==
    /\ \A hour \in 0..23 : get_time_period(TimeOfHour(hour)) = PeriodOfHour(hour)
    /\ filtering.pc = "returned"
         => /\ IsSubsequence(filtering.out, filtering.showtimes)
            /\ (filtering.date_filter = <<>> /\ filtering.time_filter = <<>>)
                 => filtering.out = filtering.showtimes
            /\ (filtering.date_filter = <<>> /\ filtering.time_filter = <<"Evening">>)
                 => filtering.out = ShowsInPeriod(filtering.showtimes, "evening")

\* The evening filter has kept a show of 17:00 or 20:00 and dropped one of
\* 21:00 or 16:00.
C36_Witness ==
    /\ filtering.pc = "returned"
    /\ filtering.date_filter = <<>>
    /\ filtering.time_filter = <<"Evening">>
    /\ Len(filtering.showtimes) = 2
    /\ Len(filtering.out) = 1
    /\ \E i \in 1..2 : filtering.showtimes[i].time = TimeStr("2", "1")

====
